---- MODULE Spec2Model ----
(***************************************************************************)
(* nfx-datetime: the tick <-> calendar codec, the DateTime component       *)
(* constructors, the ISO-8601 parsers (fast path and flexible path) and    *)
(* formatters of DateTime and DateTimeOffset.                              *)
(*                                                                         *)
(* Representation.  A tick count is a signed 64-bit number of 100ns units; *)
(* TLC's integers are 32 bits wide, so a tick count is held in mixed radix *)
(* as a record [d, s, f] that denotes d*TICKS_PER_DAY + s*TICKS_PER_SECOND *)
(* + f with 0 <= s < SECONDS_PER_DAY and 0 <= f < TICKS_PER_SECOND (d may  *)
(* be negative).  Every tick count has exactly one such record, so record  *)
(* equality is equality of tick counts.  A quotient or remainder of a tick *)
(* count by TICKS_PER_DAY, _HOUR, _MINUTE, _SECOND is taken on the digits. *)
(* A text is a sequence of one-character strings; At(s, i) is the source's *)
(* zero-based s[i].                                                        *)
(***************************************************************************)
EXTENDS Integers, Sequences, FiniteSets

VARIABLES pc, args, fmt, text, dt, dto, ok, comp

vars == <<pc, args, fmt, text, dt, dto, ok, comp>>

(***************************************************************************)
(* constants:: (header of the library)                                     *)
(***************************************************************************)
TICKS_PER_MICROSECOND == 10
TICKS_PER_MILLISECOND == 10000
TICKS_PER_SECOND == 10000000
MILLISECONDS_PER_SECOND == 1000
SECONDS_PER_MINUTE == 60
SECONDS_PER_HOUR == 3600
MINUTES_PER_HOUR == 60
HOURS_PER_DAY == 24
SECONDS_PER_DAY == HOURS_PER_DAY * SECONDS_PER_HOUR
DAYS_PER_YEAR == 365
DAYS_PER_4_YEARS == 1461
DAYS_PER_100_YEARS == 36524
DAYS_PER_400_YEARS == 146097
MIN_YEAR == 1
MAX_YEAR == 9999

(***************************************************************************)
(* 64-bit tick arithmetic on the mixed-radix record                        *)
(***************************************************************************)
\* the record of days*TICKS_PER_DAY + secs*TICKS_PER_SECOND + frac
MkTicks(days, secs, frac) ==
    LET f  == frac % TICKS_PER_SECOND
        s0 == secs + (frac \div TICKS_PER_SECOND)
        s  == s0 % SECONDS_PER_DAY
    IN  [d |-> days + (s0 \div SECONDS_PER_DAY), s |-> s, f |-> f]

TAdd(a, b) == MkTicks(a.d + b.d, a.s + b.s, a.f + b.f)

TSub(a, b) == MkTicks(a.d - b.d, a.s - b.s, a.f - b.f)

TNeg(a) == MkTicks(-a.d, -a.s, -a.f)

TLe(a, b) ==
    \/ a.d < b.d
    \/ a.d = b.d /\ a.s < b.s
    \/ a.d = b.d /\ a.s = b.s /\ a.f <= b.f

TLt(a, b) == TLe(a, b) /\ a # b

TZero == [d |-> 0, s |-> 0, f |-> 0]

\* C++ integer division and remainder truncate towards zero
TruncDiv(a, b) == IF a >= 0 THEN a \div b ELSE -((-a) \div b)

TruncMod(a, b) == a - b * TruncDiv(a, b)

\* ticks / TICKS_PER_DAY
TicksDivDay(t) == IF t.d < 0 /\ (t.s # 0 \/ t.f # 0) THEN t.d + 1 ELSE t.d

\* ticks % TICKS_PER_DAY as the pair <<seconds, sub-second ticks>>, both of the
\* sign of ticks
TicksModDay(t) ==
    IF t.d >= 0 THEN <<t.s, t.f>>
    ELSE IF t.s = 0 /\ t.f = 0 THEN <<0, 0>>
    ELSE IF t.f = 0 THEN <<-(SECONDS_PER_DAY - t.s), 0>>
    ELSE <<-(SECONDS_PER_DAY - t.s - 1), -(TICKS_PER_SECOND - t.f)>>

\* ticks % TICKS_PER_SECOND
TicksModSecond(t) == TicksModDay(t)[2]

MIN_DATETIME_TICKS == TZero

\* 3155378975999999999 ticks = 3652058 days + 86399 s + 9999999 ticks
\* (9999-12-31T23:59:59.9999999)
MAX_DATETIME_TICKS == [d |-> 3652058, s |-> 86399, f |-> 9999999]

(***************************************************************************)
(* Calendar codec                                                          *)
(***************************************************************************)
isLeapYear(year) == (year % 4 = 0 /\ year % 100 # 0) \/ year % 400 = 0

daysInMonth(year, month) ==
    IF month < 1 \/ month > 12 THEN 0
    ELSE IF month = 2 THEN (IF isLeapYear(year) THEN 29 ELSE 28)
    ELSE IF month \in {4, 6, 9, 11} THEN 30
    ELSE 31

\* the month scan of dateComponentsFromTicks: <<month, remaining days>>
RECURSIVE monthScan(_, _, _)
monthScan(year, month, totalDays) ==
    IF month <= 12
    THEN IF totalDays < daysInMonth(year, month)
         THEN <<month, totalDays>>
         ELSE monthScan(year, month + 1, totalDays - daysInMonth(year, month))
    ELSE <<month, totalDays>>

clampCycles_unclamped(n) == n

clampCycles_at4(n) == IF n > 4 THEN 4 ELSE n

\* "if( num100Years > 3 ) num100Years = 3" and "if( numYears > 3 ) numYears = 3"
clampCycles(n) == IF n > 3 THEN 3 ELSE n

dateComponentsFromTicks(ticks) ==
    LET totalDays0  == TicksDivDay(ticks)
        num400Years == TruncDiv(totalDays0, DAYS_PER_400_YEARS)
        totalDays1  == TruncMod(totalDays0, DAYS_PER_400_YEARS)
        num100Years == clampCycles(TruncDiv(totalDays1, DAYS_PER_100_YEARS))
        totalDays2  == totalDays1 - num100Years * DAYS_PER_100_YEARS
        num4Years   == TruncDiv(totalDays2, DAYS_PER_4_YEARS)
        totalDays3  == TruncMod(totalDays2, DAYS_PER_4_YEARS)
        numYears    == clampCycles(TruncDiv(totalDays3, DAYS_PER_YEAR))
        totalDays4  == totalDays3 - numYears * DAYS_PER_YEAR
        year        == 1 + num400Years * 400 + num100Years * 100 + num4Years * 4 + numYears
        scan        == monthScan(year, 1, totalDays4)
    IN  [year |-> year, month |-> scan[1], day |-> scan[2] + 1]

timeComponentsFromTicks(ticks) ==
    LET timeTicks == TicksModDay(ticks)
        secs      == timeTicks[1]
    IN  [hour        |-> TruncDiv(secs, SECONDS_PER_HOUR),
         minute      |-> TruncDiv(TruncMod(secs, SECONDS_PER_HOUR), SECONDS_PER_MINUTE),
         second      |-> TruncMod(TruncMod(secs, SECONDS_PER_HOUR), SECONDS_PER_MINUTE),
         millisecond |-> TruncDiv(timeTicks[2], TICKS_PER_MILLISECOND)]

\* the days of the whole months before month in year
RECURSIVE monthDays(_, _, _)
monthDays(year, m, month) ==
    IF m < month THEN daysInMonth(year, m) + monthDays(year, m + 1, month) ELSE 0

dateToDays_julian(year, month, day) ==
    TruncDiv(year - 1, 4) * DAYS_PER_4_YEARS
        + TruncMod(year - 1, 4) * DAYS_PER_YEAR
        + monthDays(year, 1, month)
        + (day - 1)

\* totalDays of dateToTicks
dateToDays(year, month, day) ==
    LET y0 == year - 1
        y1 == TruncMod(y0, 400)
        y2 == TruncMod(y1, 100)
        y3 == TruncMod(y2, 4)
    IN  TruncDiv(y0, 400) * DAYS_PER_400_YEARS
        + TruncDiv(y1, 100) * DAYS_PER_100_YEARS
        + TruncDiv(y2, 4) * DAYS_PER_4_YEARS
        + y3 * DAYS_PER_YEAR
        + monthDays(year, 1, month)
        + (day - 1)

dateToTicks(year, month, day) == MkTicks(dateToDays(year, month, day), 0, 0)

timeToTicks(hour, minute, second, millisecond) ==
    MkTicks(0,
            hour * SECONDS_PER_HOUR + minute * SECONDS_PER_MINUTE + second,
            millisecond * TICKS_PER_MILLISECOND)

isValidDate_day0(year, month, day) ==
    IF year < MIN_YEAR \/ year > MAX_YEAR THEN FALSE
    ELSE IF month < 1 \/ month > 12 THEN FALSE
    ELSE IF day < 0 \/ day > daysInMonth(year, month) THEN FALSE
    ELSE TRUE

isValidDate_day31(year, month, day) ==
    IF year < MIN_YEAR \/ year > MAX_YEAR THEN FALSE
    ELSE IF month < 1 \/ month > 12 THEN FALSE
    ELSE IF day < 1 \/ day > 31 THEN FALSE
    ELSE TRUE

isValidDate(year, month, day) ==
    IF year < MIN_YEAR \/ year > MAX_YEAR THEN FALSE
    ELSE IF month < 1 \/ month > 12 THEN FALSE
    ELSE IF day < 1 \/ day > daysInMonth(year, month) THEN FALSE
    ELSE TRUE

isValidTime_hour24(hour, minute, second, millisecond) ==
    /\ hour >= 0 /\ hour <= HOURS_PER_DAY
    /\ minute >= 0 /\ minute <= MINUTES_PER_HOUR - 1
    /\ second >= 0 /\ second <= SECONDS_PER_MINUTE - 1
    /\ millisecond >= 0 /\ millisecond <= MILLISECONDS_PER_SECOND - 1

isValidTime(hour, minute, second, millisecond) ==
    /\ hour >= 0 /\ hour <= HOURS_PER_DAY - 1
    /\ minute >= 0 /\ minute <= MINUTES_PER_HOUR - 1
    /\ second >= 0 /\ second <= SECONDS_PER_MINUTE - 1
    /\ millisecond >= 0 /\ millisecond <= MILLISECONDS_PER_SECOND - 1

(***************************************************************************)
(* DateTime                                                                *)
(***************************************************************************)
\* DateTime( year, month, day )
DateTime3(year, month, day) ==
    IF ~isValidDate(year, month, day) THEN MIN_DATETIME_TICKS
    ELSE dateToTicks(year, month, day)

\* DateTime( year, month, day, hour, minute, second )
DateTime6(year, month, day, hour, minute, second) ==
    IF ~isValidDate(year, month, day) \/ ~isValidTime(hour, minute, second, 0)
    THEN MIN_DATETIME_TICKS
    ELSE TAdd(dateToTicks(year, month, day), timeToTicks(hour, minute, second, 0))

\* DateTime( year, month, day, hour, minute, second, millisecond )
DateTime7(year, month, day, hour, minute, second, millisecond) ==
    IF ~isValidDate(year, month, day) \/ ~isValidTime(hour, minute, second, millisecond)
    THEN MIN_DATETIME_TICKS
    ELSE TAdd(dateToTicks(year, month, day), timeToTicks(hour, minute, second, millisecond))

\* DateTime::isValid
DateTime_isValid(ticks) == TLe(MIN_DATETIME_TICKS, ticks) /\ TLe(ticks, MAX_DATETIME_TICKS)

(***************************************************************************)
(* Characters and texts                                                    *)
(***************************************************************************)
DigitChars == <<"0", "1", "2", "3", "4", "5", "6", "7", "8", "9">>

\* the source's zero-based str[i]
At(str, i) == str[i + 1]

\* c - '0', for a digit c
DigitVal(c) == CHOOSE n \in 0..9 : DigitChars[n + 1] = c

\* static_cast<char>( '0' + n ); the model formats only values whose decimal
\* fields are single digits, "?" stands for any other character
Chr(n) == IF n \in 0..9 THEN DigitChars[n + 1] ELSE "?"

npos == -1

\* std::string_view::find( c, from )
RECURSIVE find(_, _, _)
find(str, c, from) ==
    IF from >= Len(str) THEN npos
    ELSE IF At(str, from) = c THEN from
    ELSE find(str, c, from + 1)

\* std::string_view::find_last_of( set ): scan down from index i
RECURSIVE findLastOfFrom(_, _, _)
findLastOfFrom(str, set, i) ==
    IF i < 0 THEN npos
    ELSE IF At(str, i) \in set THEN i
    ELSE findLastOfFrom(str, set, i - 1)

find_last_of(str, set) == findLastOfFrom(str, set, Len(str) - 1)

\* std::string_view::substr( pos, count ) and substr( pos )
substr(str, pos, count) == SubSeq(str, pos + 1, pos + count)

substrFrom(str, pos) == SubSeq(str, pos + 1, Len(str))

isDigit(c) == c \in {"0", "1", "2", "3", "4", "5", "6", "7", "8", "9"}

areDigits(str, p, count) == \A i \in 0..(count - 1) : isDigit(At(str, p + i))

parse2Digits(str, p) == DigitVal(At(str, p)) * 10 + DigitVal(At(str, p + 1))

parse4Digits(str, p) ==
    DigitVal(At(str, p)) * 1000 + DigitVal(At(str, p + 1)) * 100
        + DigitVal(At(str, p + 2)) * 10 + DigitVal(At(str, p + 3))

\* "while( p < end && *p >= '0' && *p <= '9' ) ++p" with end = last
RECURSIVE digitRunEnd(_, _, _)
digitRunEnd(str, p, last) ==
    IF p < last /\ isDigit(At(str, p)) THEN digitRunEnd(str, p + 1, last) ELSE p

\* the value of the digits str[p..stop), or -1 when it exceeds limit (a 32-bit
\* int holds magnitudes up to 2147483647, and 2147483648 when negative)
RECURSIVE digitsValue(_, _, _, _, _)
digitsValue(str, p, stop, acc, lastDigitLimit) ==
    IF p >= stop THEN acc
    ELSE LET dgt == DigitVal(At(str, p))
         IN  IF acc > 214748364 \/ (acc = 214748364 /\ dgt > lastDigitLimit) THEN -1
             ELSE digitsValue(str, p + 1, stop, acc * 10 + dgt, lastDigitLimit)

\* std::from_chars( first, last, std::int32_t& ): an optional '-', then decimal
\* digits; ptr is the first character not consumed, value is written on
\* success only (all callers pass a variable holding 0).  mag is the value
\* of the digits as a positive number, negMag as a negative one.
fromCharsValue(neg, stop, mag, negMag) ==
    IF mag = -1 /\ ~(neg /\ negMag # -1)
    THEN [ec |-> "result_out_of_range", ptr |-> stop, value |-> 0]
    ELSE IF mag = -1
    THEN [ec |-> "ok", ptr |-> stop, value |-> -2147483647 - 1]
    ELSE [ec |-> "ok", ptr |-> stop, value |-> IF neg THEN -mag ELSE mag]

\* from_chars on the digit run str[start..stop)
fromCharsRun(str, first, neg, start, stop) ==
    IF stop = start
    THEN [ec |-> "invalid_argument", ptr |-> first, value |-> 0]
    ELSE fromCharsValue(neg, stop, digitsValue(str, start, stop, 0, 7),
                        digitsValue(str, start, stop, 0, 8))

fromCharsDigits(str, first, last, neg, start) ==
    fromCharsRun(str, first, neg, start, digitRunEnd(str, start, last))

fromCharsSigned(str, first, last, neg) ==
    fromCharsDigits(str, first, last, neg, IF neg THEN first + 1 ELSE first)

from_chars(str, first, last) ==
    fromCharsSigned(str, first, last, first < last /\ At(str, first) = "-")

(***************************************************************************)
(* DateTime parsing                                                        *)
(***************************************************************************)
\* a parser's return value: ok is the bool returned, ticks is what it stored
\* in result (result is not written when ok is FALSE)
ParseFail == [ok |-> FALSE, ticks |-> MIN_DATETIME_TICKS]

ParseOk(ticks) == [ok |-> TRUE, ticks |-> ticks]

RECURSIVE scanFraction_6digits(_, _, _, _)
scanFraction_6digits(str, pos, fractionValue, fractionDigits) ==
    IF pos < Len(str) /\ isDigit(At(str, pos)) /\ fractionDigits < 6
    THEN scanFraction_6digits(str, pos + 1, fractionValue * 10 + DigitVal(At(str, pos)),
                              fractionDigits + 1)
    ELSE [pos |-> pos, fractionValue |-> fractionValue, fractionDigits |-> fractionDigits]

\* "while( pos < len && isDigit( data[pos] ) && fractionDigits < 7 )"
RECURSIVE scanFraction(_, _, _, _)
scanFraction(str, pos, fractionValue, fractionDigits) ==
    IF pos < Len(str) /\ isDigit(At(str, pos)) /\ fractionDigits < 7
    THEN scanFraction(str, pos + 1, fractionValue * 10 + DigitVal(At(str, pos)),
                      fractionDigits + 1)
    ELSE [pos |-> pos, fractionValue |-> fractionValue, fractionDigits |-> fractionDigits]

padFraction_none(fractionValue, fractionDigits) == fractionValue

\* "while( fractionDigits < 7 ) { fractionValue *= 10; ++fractionDigits; }"
RECURSIVE padFraction(_, _)
padFraction(fractionValue, fractionDigits) ==
    IF fractionDigits < 7 THEN padFraction(fractionValue * 10, fractionDigits + 1)
    ELSE fractionValue

\* "while( pos < len && isDigit( data[pos] ) ) ++pos"
skipDigits(str, pos) == digitRunEnd(str, pos, Len(str))

\* "if( pos < len && data[pos] == 'Z' ) ++pos" after the fraction
fastPathZ(str, pos, fractionalTicks) ==
    [ok |-> TRUE, pos |-> IF pos < Len(str) /\ At(str, pos) = "Z" THEN pos + 1 ELSE pos,
     fractionalTicks |-> fractionalTicks]

\* the fraction of tryParseFastPath, sc being the scan of its first 7 digits
fastPathFraction(str, sc) ==
    IF sc.fractionDigits = 0
    THEN [ok |-> FALSE, pos |-> sc.pos, fractionalTicks |-> 0]
    ELSE fastPathZ(str, skipDigits(str, sc.pos),
                   padFraction(sc.fractionValue, sc.fractionDigits))

\* the part of tryParseFastPath after the seconds: [ok, pos, fractionalTicks]
fastPathTail(str) ==
    IF Len(str) = 20 /\ At(str, 19) = "Z"
    THEN [ok |-> TRUE, pos |-> 20, fractionalTicks |-> 0]
    ELSE IF Len(str) > 19 /\ At(str, 19) = "."
    THEN fastPathFraction(str, scanFraction(str, 20, 0, 0))
    ELSE IF Len(str) # 19
    THEN [ok |-> FALSE, pos |-> 19, fractionalTicks |-> 0]
    ELSE [ok |-> TRUE, pos |-> 19, fractionalTicks |-> 0]

\* the end of tryParseFastPath: the checks on the tail, then the result
fastPathResult(len, year, month, day, hour, minute, second, tail) ==
    IF ~tail.ok THEN ParseFail
    ELSE IF tail.pos # len THEN ParseFail
    ELSE ParseOk(TAdd(TAdd(dateToTicks(year, month, day),
                           timeToTicks(hour, minute, second, 0)),
                      MkTicks(0, 0, tail.fractionalTicks)))

\* the time part of tryParseFastPath
fastPathTime(str, year, month, day, hour, minute, second) ==
    IF ~isValidTime(hour, minute, second, 0) THEN ParseFail
    ELSE fastPathResult(Len(str), year, month, day, hour, minute, second, fastPathTail(str))

\* the date part of tryParseFastPath and what follows it
fastPathDate(str, year, month, day) ==
    IF ~isValidDate(year, month, day) THEN ParseFail
    ELSE IF Len(str) = 10 THEN ParseOk(dateToTicks(year, month, day))
    ELSE IF At(str, 10) # "T" THEN ParseFail
    ELSE IF Len(str) < 19 THEN ParseFail
    ELSE IF \/ At(str, 13) # ":" \/ At(str, 16) # ":"
            \/ ~areDigits(str, 11, 2) \/ ~areDigits(str, 14, 2) \/ ~areDigits(str, 17, 2)
    THEN ParseFail
    ELSE fastPathTime(str, year, month, day, parse2Digits(str, 11), parse2Digits(str, 14),
                      parse2Digits(str, 17))

tryParseFastPath(str) ==
    IF Len(str) < 10 THEN ParseFail
    ELSE IF \/ At(str, 4) # "-" \/ At(str, 7) # "-"
            \/ ~areDigits(str, 0, 4) \/ ~areDigits(str, 5, 2) \/ ~areDigits(str, 8, 2)
    THEN ParseFail
    ELSE fastPathDate(str, parse4Digits(str, 0), parse2Digits(str, 5), parse2Digits(str, 8))

\* the digits of the fraction of the flexible parser, sc being the scan of
\* the first 7 digits and rF the from_chars result on them
flexibleFractionDigits(sc, rF) ==
    IF sc.fractionDigits > 0
    THEN IF rF.ec # "ok" \/ rF.ptr # sc.pos
         THEN [ok |-> FALSE, fractionalTicks |-> 0]
         ELSE [ok |-> TRUE, fractionalTicks |-> padFraction(rF.value, sc.fractionDigits)]
    ELSE [ok |-> TRUE, fractionalTicks |-> 0]

flexibleFractionScan(str, fracStart, sc) ==
    flexibleFractionDigits(sc, from_chars(str, fracStart, sc.pos))

\* the fractional seconds of the flexible parser, ptr6 at the character after
\* the seconds: [ok, fractionalTicks]
flexibleFraction(str, ptr6) ==
    IF ptr6 < Len(str) /\ At(str, ptr6) = "."
    THEN flexibleFractionScan(str, ptr6 + 1, scanFraction(str, ptr6 + 1, 0, 0))
    ELSE [ok |-> TRUE, fractionalTicks |-> 0]

NoTime == [ok |-> TRUE, hour |-> 0, minute |-> 0, second |-> 0, fractionalTicks |-> 0]

BadTime == [ok |-> FALSE, hour |-> 0, minute |-> 0, second |-> 0, fractionalTicks |-> 0]

\* the time of the flexible parser once hour, minute, second are read
flexibleTimeResult(r4, r5, r6, fr) ==
    IF r6.ec # "ok" THEN BadTime
    ELSE IF ~fr.ok THEN BadTime
    ELSE [ok |-> TRUE, hour |-> r4.value, minute |-> r5.value, second |-> r6.value,
          fractionalTicks |-> fr.fractionalTicks]

flexibleSecond(str, r4, r5, r6) ==
    flexibleTimeResult(r4, r5, r6, flexibleFraction(str, r6.ptr))

flexibleMinute(str, r4, r5) ==
    IF r5.ec # "ok" THEN BadTime
    ELSE IF r5.ptr >= Len(str) \/ At(str, r5.ptr) # ":" THEN BadTime
    ELSE flexibleSecond(str, r4, r5,
                        from_chars(str, r5.ptr + 1, digitRunEnd(str, r5.ptr + 1, Len(str))))

flexibleHour(str, r4) ==
    IF r4.ec # "ok" THEN BadTime
    ELSE IF r4.ptr >= Len(str) \/ At(str, r4.ptr) # ":" THEN BadTime
    ELSE flexibleMinute(str, r4,
                        from_chars(str, r4.ptr + 1, digitRunEnd(str, r4.ptr + 1, Len(str))))

\* the optional time part of the flexible parser, ptr3 at the character after
\* the day: [ok, hour, minute, second, fractionalTicks]
flexibleTime(str, ptr3) ==
    IF ~(ptr3 < Len(str) /\ At(str, ptr3) = "T") THEN NoTime
    ELSE flexibleHour(str, from_chars(str, ptr3 + 1, digitRunEnd(str, ptr3 + 1, Len(str))))

\* the validation and the result of the flexible parser
flexibleResult(year, month, day, tm) ==
    IF ~tm.ok THEN ParseFail
    ELSE IF \/ ~isValidDate(year, month, day)
            \/ ~isValidTime(tm.hour, tm.minute, tm.second, 0)
    THEN ParseFail
    ELSE ParseOk(TAdd(TAdd(dateToTicks(year, month, day),
                           timeToTicks(tm.hour, tm.minute, tm.second, 0)),
                      MkTicks(0, 0, tm.fractionalTicks)))

flexibleDay(str, r1, r2, r3) ==
    IF r3.ec # "ok" THEN ParseFail
    ELSE flexibleResult(r1.value, r2.value, r3.value, flexibleTime(str, r3.ptr))

flexibleMonth(str, r1, r2) ==
    IF r2.ec # "ok" THEN ParseFail
    ELSE IF r2.ptr >= Len(str) \/ At(str, r2.ptr) # "-" THEN ParseFail
    ELSE flexibleDay(str, r1, r2,
                     from_chars(str, r2.ptr + 1, digitRunEnd(str, r2.ptr + 1, Len(str))))

flexibleDash(str, r1, dashPos) ==
    IF dashPos = npos THEN ParseFail
    ELSE flexibleMonth(str, r1, from_chars(str, r1.ptr + 1, dashPos))

flexibleYear(str, r1) ==
    IF r1.ec # "ok" \/ r1.ptr # 4 THEN ParseFail
    ELSE IF r1.ptr >= Len(str) \/ At(str, r1.ptr) # "-" THEN ParseFail
    ELSE flexibleDash(str, r1, find(str, "-", 5))

\* the flexible parser of DateTime::fromString, on the text left after the
\* trailing 'Z' and the zone offset have been cut off
flexibleParse(str) ==
    IF Len(str) < 4 THEN ParseFail ELSE flexibleYear(str, from_chars(str, 0, 4))

stripOffset_offByOne(str1, tzPos) ==
    IF tzPos # npos /\ tzPos > 10 THEN substr(str1, 0, tzPos - 1) ELSE str1

\* "if( tzPos != npos && tzPos > 10 ) str = str.substr( 0, tzPos )"
stripOffset(str1, tzPos) ==
    IF tzPos # npos /\ tzPos > 10 THEN substr(str1, 0, tzPos) ELSE str1

\* "if( str.back() == 'Z' ) str = str.substr( 0, str.length() - 1 )"
stripZ(str) == IF At(str, Len(str) - 1) = "Z" THEN substr(str, 0, Len(str) - 1) ELSE str

stripTimezone(str1) == stripOffset(str1, find_last_of(str1, {"+", "-"}))

\* the cut of DateTime::fromString before the flexible parser: a trailing 'Z'
\* is removed, then everything from the last '+' or '-' beyond index 10
stripZone(str) == stripTimezone(stripZ(str))

fromStringFallback(str, fast) == IF fast.ok THEN fast ELSE flexibleParse(stripZone(str))

\* DateTime::fromString( iso8601String, result )
DateTime_fromString(str) ==
    IF Len(str) = 0 \/ Len(str) < 10 THEN ParseFail
    ELSE fromStringFallback(str, tryParseFastPath(str))

(***************************************************************************)
(* DateTime formatting                                                     *)
(***************************************************************************)
appendTwoDigits(value) == <<Chr(value \div 10), Chr(value % 10)>>

appendFourDigits(value) ==
    <<Chr(value \div 1000), Chr((value \div 100) % 10), Chr((value \div 10) % 10),
      Chr(value % 10)>>

appendIso8601Date(year, month, day) ==
    appendFourDigits(year) \o <<"-">> \o appendTwoDigits(month) \o <<"-">>
        \o appendTwoDigits(day)

appendIso8601Time(hour, minute, second) ==
    appendTwoDigits(hour) \o <<":">> \o appendTwoDigits(minute) \o <<":">>
        \o appendTwoDigits(second)

appendIso8601DateTime(year, month, day, hour, minute, second) ==
    appendIso8601Date(year, month, day) \o <<"T">> \o appendIso8601Time(hour, minute, second)

\* std::to_chars of a value >= 0: its decimal digits, no leading zero
RECURSIVE to_chars(_)
to_chars(value) ==
    IF value < 10 THEN <<Chr(value)>>
    ELSE to_chars(value \div 10) \o <<Chr(value % 10)>>

zeros(n) == [i \in 1..n |-> "0"]

appendFractionalSeconds_unpadded(fractionalValue, bufferSize) ==
    <<".">> \o to_chars(fractionalValue)

\* fracBuffer after to_chars, memmove and memset: '.', then the digits of the
\* value shifted right behind paddingNeeded zeros
appendFractionalSeconds(fractionalValue, bufferSize) ==
    LET digits        == to_chars(fractionalValue)
        fracLen       == 1 + Len(digits)
        paddingNeeded == bufferSize - fracLen
    IN  IF paddingNeeded > 0
        THEN <<".">> \o zeros(paddingNeeded) \o digits
        ELSE <<".">> \o digits

trimTrailingZeros_none(fracBuffer, fracLen) == fracLen

\* "while( fracLen > 2 && fracBuffer[fracLen - 1] == '0' ) --fracLen"
RECURSIVE trimTrailingZeros(_, _)
trimTrailingZeros(fracBuffer, fracLen) ==
    IF fracLen > 2 /\ At(fracBuffer, fracLen - 1) = "0"
    THEN trimTrailingZeros(fracBuffer, fracLen - 1)
    ELSE fracLen

appendFractionalSecondsTrimmed(fractionalTicks) ==
    IF fractionalTicks > 0
    THEN LET fracBuffer == appendFractionalSeconds(fractionalTicks, 8)
         IN  substr(fracBuffer, 0, trimTrailingZeros(fracBuffer, Len(fracBuffer)))
    ELSE <<".", "0">>

Formats ==
    {"Iso8601", "Iso8601Precise", "Iso8601PreciseTrimmed", "Iso8601Millis", "Iso8601Micros",
     "Iso8601Extended", "Iso8601Basic", "Iso8601Date", "Iso8601Time"}

\* DateTime::toString( format ) for the ISO 8601 selectors
DateTime_toString(ticks, format) ==
    LET dc == dateComponentsFromTicks(ticks)
        tc == timeComponentsFromTicks(ticks)
        y == dc.year
        mon == dc.month
        d == dc.day
        h == tc.hour
        min == tc.minute
        s == tc.second
        fractionalTicks == TicksModSecond(ticks)
    IN  CASE format = "Iso8601" ->
                appendIso8601DateTime(y, mon, d, h, min, s) \o <<"Z">>
          [] format = "Iso8601Precise" ->
                appendIso8601DateTime(y, mon, d, h, min, s)
                    \o appendFractionalSeconds(fractionalTicks, 8) \o <<"Z">>
          [] format = "Iso8601PreciseTrimmed" ->
                appendIso8601DateTime(y, mon, d, h, min, s)
                    \o appendFractionalSecondsTrimmed(fractionalTicks) \o <<"Z">>
          [] format = "Iso8601Millis" ->
                appendIso8601DateTime(y, mon, d, h, min, s)
                    \o appendFractionalSeconds(
                           TruncDiv(fractionalTicks, TICKS_PER_MILLISECOND), 4)
                    \o <<"Z">>
          [] format = "Iso8601Micros" ->
                appendIso8601DateTime(y, mon, d, h, min, s)
                    \o appendFractionalSeconds(
                           TruncDiv(fractionalTicks, TICKS_PER_MICROSECOND), 7)
                    \o <<"Z">>
          [] format = "Iso8601Extended" ->
                appendIso8601DateTime(y, mon, d, h, min, s)
                    \o <<"+", "0", "0", ":", "0", "0">>
          [] format = "Iso8601Basic" ->
                appendFourDigits(y) \o appendTwoDigits(mon) \o appendTwoDigits(d) \o <<"T">>
                    \o appendTwoDigits(h) \o appendTwoDigits(min) \o appendTwoDigits(s)
                    \o <<"Z">>
          [] format = "Iso8601Date" -> appendIso8601Date(y, mon, d)
          [] format = "Iso8601Time" -> appendIso8601Time(h, min, s)
          [] OTHER -> appendIso8601DateTime(y, mon, d, h, min, s) \o <<"Z">>

(***************************************************************************)
(* TimeSpan and DateTimeOffset                                             *)
(***************************************************************************)
\* TimeSpan::fromMinutes( minutes ), a span being a tick count
TimeSpan_fromMinutes(minutes) == MkTicks(0, minutes * SECONDS_PER_MINUTE, 0)

\* DateTimeOffset{ dateTime, offset }
DateTimeOffset(dateTime, offset) == [dateTime |-> dateTime, offset |-> offset]

\* DateTimeOffset::totalOffsetMinutes: the whole minutes of the offset,
\* truncated towards zero
totalOffsetMinutes(offset) ==
    LET secs == offset.d * SECONDS_PER_DAY + offset.s
    IN  IF secs >= 0 THEN secs \div SECONDS_PER_MINUTE
        ELSE IF offset.f = 0 THEN -((-secs) \div SECONDS_PER_MINUTE)
        ELSE -((-secs - 1) \div SECONDS_PER_MINUTE)

\* DateTimeOffset::localDateTime
localDateTime(v) == v.dateTime

\* MAX_OFFSET_TICKS of isValidOffset
MAX_OFFSET_TICKS == MkTicks(0, HOURS_PER_DAY * SECONDS_PER_HOUR, 0)

isValidOffset(offset) == TLe(TNeg(MAX_OFFSET_TICKS), offset) /\ TLe(offset, MAX_OFFSET_TICKS)

\* DateTimeOffset::isValid
DateTimeOffset_isValid(v) == DateTime_isValid(v.dateTime) /\ isValidOffset(v.offset)

(***************************************************************************)
(* DateTimeOffset formatting                                               *)
(***************************************************************************)
abs(n) == IF n < 0 THEN -n ELSE n

appendOffset_minusZero(offsetMinutes) ==
    LET absMinutes == abs(offsetMinutes)
    IN  <<IF offsetMinutes > 0 THEN "+" ELSE "-">>
            \o appendTwoDigits(absMinutes \div MINUTES_PER_HOUR) \o <<":">>
            \o appendTwoDigits(absMinutes % MINUTES_PER_HOUR)

appendOffset_noColon(offsetMinutes) ==
    LET absMinutes == abs(offsetMinutes)
    IN  <<IF offsetMinutes >= 0 THEN "+" ELSE "-">>
            \o appendTwoDigits(absMinutes \div MINUTES_PER_HOUR)
            \o appendTwoDigits(absMinutes % MINUTES_PER_HOUR)

appendOffset(offsetMinutes) ==
    LET absMinutes  == abs(offsetMinutes)
        offsetHours == absMinutes \div MINUTES_PER_HOUR
        offsetMins  == absMinutes % MINUTES_PER_HOUR
    IN  <<IF offsetMinutes >= 0 THEN "+" ELSE "-">>
            \o appendTwoDigits(offsetHours) \o <<":">> \o appendTwoDigits(offsetMins)

\* internal::formatIso8601Basic( dto )
offsetFormatIso8601Basic(v) ==
    LET dc            == dateComponentsFromTicks(v.dateTime)
        tc            == timeComponentsFromTicks(v.dateTime)
        offsetMinutes == totalOffsetMinutes(v.offset)
        absMinutes    == abs(offsetMinutes)
    IN  appendFourDigits(dc.year) \o appendTwoDigits(dc.month) \o appendTwoDigits(dc.day)
            \o <<"T">>
            \o appendTwoDigits(tc.hour) \o appendTwoDigits(tc.minute)
            \o appendTwoDigits(tc.second)
            \o <<IF offsetMinutes >= 0 THEN "+" ELSE "-">>
            \o appendTwoDigits(absMinutes \div MINUTES_PER_HOUR)
            \o appendTwoDigits(absMinutes % MINUTES_PER_HOUR)

\* fracBuffer of internal::formatIso8601 after to_chars, memmove and memset
offsetFracBuffer(value, size) ==
    LET digits        == to_chars(value)
        fracLen       == 1 + Len(digits)
        paddingNeeded == size - fracLen
    IN  IF paddingNeeded > 0
        THEN <<".">> \o zeros(paddingNeeded) \o digits
        ELSE <<".">> \o digits

\* internal::formatIso8601( dto, format )
offsetFormatIso8601(v, format) ==
    LET dc              == dateComponentsFromTicks(v.dateTime)
        tc              == timeComponentsFromTicks(v.dateTime)
        fractionalTicks == TicksModSecond(v.dateTime)
        dateTime        ==
            appendFourDigits(dc.year) \o <<"-">> \o appendTwoDigits(dc.month) \o <<"-">>
                \o appendTwoDigits(dc.day) \o <<"T">>
                \o appendTwoDigits(tc.hour) \o <<":">> \o appendTwoDigits(tc.minute)
                \o <<":">> \o appendTwoDigits(tc.second)
        fraction        ==
            CASE format = "Iso8601Precise" -> offsetFracBuffer(fractionalTicks, 8)
              [] format = "Iso8601PreciseTrimmed" ->
                    IF fractionalTicks > 0
                    THEN LET fracBuffer == offsetFracBuffer(fractionalTicks, 8)
                         IN  substr(fracBuffer, 0,
                                    trimTrailingZeros(fracBuffer, Len(fracBuffer)))
                    ELSE <<".", "0">>
              [] format = "Iso8601Millis" ->
                    offsetFracBuffer(TruncDiv(fractionalTicks, TICKS_PER_MILLISECOND), 4)
              [] format = "Iso8601Micros" ->
                    offsetFracBuffer(TruncDiv(fractionalTicks, TICKS_PER_MICROSECOND), 7)
              [] OTHER -> <<>>
    IN  dateTime \o fraction \o appendOffset(totalOffsetMinutes(v.offset))

\* internal::formatDateOnly( dto )
formatDateOnly(v) ==
    LET dc == dateComponentsFromTicks(v.dateTime)
    IN  appendFourDigits(dc.year) \o <<"-">> \o appendTwoDigits(dc.month) \o <<"-">>
            \o appendTwoDigits(dc.day)

\* internal::formatTimeOnly( dto )
formatTimeOnly(v) ==
    LET tc == timeComponentsFromTicks(v.dateTime)
    IN  appendTwoDigits(tc.hour) \o <<":">> \o appendTwoDigits(tc.minute) \o <<":">>
            \o appendTwoDigits(tc.second) \o appendOffset(totalOffsetMinutes(v.offset))

\* DateTimeOffset::toString( format ) for the ISO 8601 selectors
DateTimeOffset_toString(v, format) ==
    CASE format \in {"Iso8601", "Iso8601Precise", "Iso8601PreciseTrimmed", "Iso8601Millis",
                     "Iso8601Micros", "Iso8601Extended"} -> offsetFormatIso8601(v, format)
      [] format = "Iso8601Basic" -> offsetFormatIso8601Basic(v)
      [] format = "Iso8601Date" -> formatDateOnly(v)
      [] format = "Iso8601Time" -> formatTimeOnly(v)
      [] OTHER -> offsetFormatIso8601(v, "Iso8601")

(***************************************************************************)
(* DateTimeOffset parsing                                                  *)
(***************************************************************************)
\* a parser's return value: ok is the bool returned, value is what it stored
\* in result (result is not written when ok is FALSE)
OffsetParseFail == [ok |-> FALSE, value |-> DateTimeOffset(MIN_DATETIME_TICKS, TZero)]

OffsetParseOk(dateTime, offset) == [ok |-> TRUE, value |-> DateTimeOffset(dateTime, offset)]

fastPathOffsetRange_no1401(offsetHours, offsetMinutes) ==
    ~(offsetHours < 0 \/ offsetHours > 14 \/ offsetMinutes < 0 \/ offsetMinutes > 59)

\* the offset range checks of tryParseFastPathOffset
fastPathOffsetRange(offsetHours, offsetMinutes) ==
    IF offsetHours < 0 \/ offsetHours > 14 \/ offsetMinutes < 0 \/ offsetMinutes > 59
    THEN FALSE
    ELSE IF offsetHours = 14 /\ offsetMinutes > 0 THEN FALSE
    ELSE TRUE

BadZone == [ok |-> FALSE, pos |-> 0, offset |-> TZero]

fastPathZoneFields_unsigned(p, isNegative, offsetHours, offsetMinutes) ==
    IF ~fastPathOffsetRange(offsetHours, offsetMinutes) THEN BadZone
    ELSE [ok |-> TRUE, pos |-> p + 5,
          offset |-> TimeSpan_fromMinutes(offsetHours * 60 + offsetMinutes)]

\* the +HH:MM or -HH:MM of tryParseFastPathOffset, p at the first digit
fastPathZoneFields(p, isNegative, offsetHours, offsetMinutes) ==
    IF ~fastPathOffsetRange(offsetHours, offsetMinutes) THEN BadZone
    ELSE [ok |-> TRUE, pos |-> p + 5,
          offset |-> TimeSpan_fromMinutes(
                         IF isNegative THEN -(offsetHours * 60 + offsetMinutes)
                         ELSE offsetHours * 60 + offsetMinutes)]

fastPathZoneDigits(str, p, isNegative) ==
    IF Len(str) - p < 5 THEN BadZone
    ELSE IF p + 5 = Len(str) /\ At(str, p + 2) = ":" /\ areDigits(str, p, 2)
            /\ areDigits(str, p + 3, 2)
    THEN fastPathZoneFields(p, isNegative, parse2Digits(str, p), parse2Digits(str, p + 3))
    ELSE BadZone

\* the zone part of tryParseFastPathOffset, pos at the character after the
\* seconds or the fraction: [ok, pos, offset]
fastPathZone(str, pos) ==
    IF pos >= Len(str) THEN BadZone
    ELSE IF At(str, pos) = "Z" THEN [ok |-> TRUE, pos |-> pos + 1, offset |-> TZero]
    ELSE IF At(str, pos) = "+" \/ At(str, pos) = "-"
    THEN fastPathZoneDigits(str, pos + 1, At(str, pos) = "-")
    ELSE BadZone

\* the fraction of tryParseFastPathOffset, sc being the scan of its first 7
\* digits: [ok, pos, fractionalTicks]
fastPathOffsetDigits(str, sc) ==
    IF sc.fractionDigits = 0
    THEN [ok |-> FALSE, pos |-> sc.pos, fractionalTicks |-> 0]
    ELSE [ok |-> TRUE, pos |-> skipDigits(str, sc.pos),
          fractionalTicks |-> padFraction(sc.fractionValue, sc.fractionDigits)]

\* the optional fraction of tryParseFastPathOffset: [ok, pos, fractionalTicks]
fastPathOffsetFraction(str) ==
    IF At(str, 19) = "."
    THEN fastPathOffsetDigits(str, scanFraction(str, 20, 0, 0))
    ELSE [ok |-> TRUE, pos |-> 19, fractionalTicks |-> 0]

fastPathOffsetTicks_dropped(dateTime, remainingTicks) == dateTime

\* "if( remainingTicks > 0 ) dateTime = DateTime{ dateTime.ticks() + remainingTicks }"
fastPathOffsetTicks(dateTime, remainingTicks) ==
    IF remainingTicks > 0 THEN TAdd(dateTime, MkTicks(0, 0, remainingTicks)) ELSE dateTime

\* the end of tryParseFastPathOffset: the checks on the zone, then the result
fastPathOffsetResult(len, year, month, day, hour, minute, second, fractionalTicks, zone) ==
    IF ~zone.ok THEN OffsetParseFail
    ELSE IF zone.pos # len THEN OffsetParseFail
    ELSE OffsetParseOk(
             fastPathOffsetTicks(
                 DateTime7(year, month, day, hour, minute, second,
                           TruncDiv(fractionalTicks, TICKS_PER_MILLISECOND)),
                 TruncMod(fractionalTicks, TICKS_PER_MILLISECOND)),
             zone.offset)

fastPathOffsetTail(str, year, month, day, hour, minute, second, fr) ==
    IF ~fr.ok THEN OffsetParseFail
    ELSE fastPathOffsetResult(Len(str), year, month, day, hour, minute, second,
                              fr.fractionalTicks, fastPathZone(str, fr.pos))

\* the range checks of tryParseFastPathOffset and what follows them
fastPathOffsetFields(str, year, month, day, hour, minute, second) ==
    IF \/ month < 1 \/ month > 12 \/ day < 1 \/ day > 31 \/ hour < 0 \/ hour > 23
       \/ minute < 0 \/ minute > 59 \/ second < 0 \/ second > 59
    THEN OffsetParseFail
    ELSE IF day > daysInMonth(year, month) THEN OffsetParseFail
    ELSE fastPathOffsetTail(str, year, month, day, hour, minute, second,
                            fastPathOffsetFraction(str))

tryParseFastPathOffset(str) ==
    IF Len(str) < 20 THEN OffsetParseFail
    ELSE IF \/ At(str, 4) # "-" \/ At(str, 7) # "-" \/ At(str, 10) # "T"
            \/ At(str, 13) # ":" \/ At(str, 16) # ":"
            \/ ~areDigits(str, 0, 4) \/ ~areDigits(str, 5, 2) \/ ~areDigits(str, 8, 2)
            \/ ~areDigits(str, 11, 2) \/ ~areDigits(str, 14, 2) \/ ~areDigits(str, 17, 2)
    THEN OffsetParseFail
    ELSE fastPathOffsetFields(str, parse4Digits(str, 0), parse2Digits(str, 5),
                              parse2Digits(str, 8), parse2Digits(str, 11),
                              parse2Digits(str, 14), parse2Digits(str, 17))

RECURSIVE findOffsetPos_fromStart(_, _)
findOffsetPos_fromStart(str, i) ==
    IF i > 0
    THEN IF At(str, i - 1) \in {"Z", "+", "-"} THEN i - 1
         ELSE findOffsetPos_fromStart(str, i - 1)
    ELSE npos

\* the scan of DateTimeOffset::fromString for the zone indicator: the last
\* 'Z', '+' or '-' at an index >= 10, looking at index i - 1
RECURSIVE findOffsetPos(_, _)
findOffsetPos(str, i) ==
    IF i > 10
    THEN IF At(str, i - 1) \in {"Z", "+", "-"} THEN i - 1 ELSE findOffsetPos(str, i - 1)
    ELSE npos

\* the offset range checks of the flexible parser
flexibleOffsetRange(hours, minutes) ==
    IF hours < 0 \/ hours > 14 \/ minutes < 0 \/ minutes > 59 THEN FALSE
    ELSE IF hours = 14 /\ minutes > 0 THEN FALSE
    ELSE TRUE

BadFields == [ok |-> FALSE, hours |-> 0, minutes |-> 0]

\* "+HH:MM": the from_chars results on the text before and after the colon
flexibleColonFields(hoursLen, minutesLen, rH, rM) ==
    IF rH.ec # "ok" \/ rM.ec # "ok" \/ rH.ptr # hoursLen \/ rM.ptr # minutesLen
    THEN BadFields
    ELSE [ok |-> TRUE, hours |-> rH.value, minutes |-> rM.value]

flexibleColonParts(hoursStr, minutesStr) ==
    flexibleColonFields(Len(hoursStr), Len(minutesStr),
                        from_chars(hoursStr, 0, Len(hoursStr)),
                        from_chars(minutesStr, 0, Len(minutesStr)))

\* "+HHMM"
flexibleCompactFields(rH, rM) ==
    IF rH.ec # "ok" \/ rM.ec # "ok" \/ rH.ptr # 2 \/ rM.ptr # 4 THEN BadFields
    ELSE [ok |-> TRUE, hours |-> rH.value, minutes |-> rM.value]

flexibleHoursField_asMinutes(n, r) ==
    IF r.ec # "ok" \/ r.ptr # n THEN BadFields
    ELSE [ok |-> TRUE, hours |-> 0, minutes |-> r.value]

\* "+HH" or "+H"
flexibleHoursField(n, r) ==
    IF r.ec # "ok" \/ r.ptr # n THEN BadFields
    ELSE [ok |-> TRUE, hours |-> r.value, minutes |-> 0]

flexibleOffsetForms(numericPart, colonPos) ==
    IF colonPos # npos
    THEN IF colonPos = 0 \/ colonPos >= Len(numericPart) - 1 THEN BadFields
         ELSE flexibleColonParts(substr(numericPart, 0, colonPos),
                                 substrFrom(numericPart, colonPos + 1))
    ELSE IF Len(numericPart) = 4
    THEN flexibleCompactFields(from_chars(numericPart, 0, 2), from_chars(numericPart, 2, 4))
    ELSE IF Len(numericPart) = 2 \/ Len(numericPart) = 1
    THEN flexibleHoursField(Len(numericPart), from_chars(numericPart, 0, Len(numericPart)))
    ELSE BadFields

\* the hours and minutes of the text after the sign: [ok, hours, minutes]
flexibleOffsetFields(numericPart) ==
    flexibleOffsetForms(numericPart, find(numericPart, ":", 0))

BadOffset == [ok |-> FALSE, offset |-> TZero, dateTimeStr |-> <<>>]

\* the range checks and the offset of the flexible parser
flexibleOffsetValue(dateTimeStr, isNegative, fields) ==
    IF ~fields.ok THEN BadOffset
    ELSE IF ~flexibleOffsetRange(fields.hours, fields.minutes) THEN BadOffset
    ELSE [ok |-> TRUE,
          offset |-> TimeSpan_fromMinutes(
                         IF isNegative
                         THEN -(fields.hours * MINUTES_PER_HOUR + fields.minutes)
                         ELSE fields.hours * MINUTES_PER_HOUR + fields.minutes),
          dateTimeStr |-> dateTimeStr]

flexibleOffsetText(dateTimeStr, offsetStr) ==
    IF Len(offsetStr) < 2 THEN BadOffset
    ELSE flexibleOffsetValue(dateTimeStr, At(offsetStr, 0) = "-",
                             flexibleOffsetFields(substrFrom(offsetStr, 1)))

flexibleZoneAt(str, offsetPos) ==
    IF offsetPos = npos THEN [ok |-> TRUE, offset |-> TZero, dateTimeStr |-> str]
    ELSE IF At(str, offsetPos - 1) \in {"+", "-"} THEN BadOffset
    ELSE IF At(str, offsetPos) = "Z"
    THEN [ok |-> TRUE, offset |-> TZero, dateTimeStr |-> substr(str, 0, offsetPos)]
    ELSE flexibleOffsetText(substr(str, 0, offsetPos), substrFrom(str, offsetPos))

\* the zone of the flexible parser: [ok, offset, dateTimeStr]
flexibleZone(str) == flexibleZoneAt(str, findOffsetPos(str, Len(str)))

flexibleDateTime(offset, r) ==
    IF r.ok THEN OffsetParseOk(r.ticks, offset) ELSE OffsetParseFail

flexibleOffsetParse(zone) ==
    IF ~zone.ok THEN OffsetParseFail
    ELSE flexibleDateTime(zone.offset, DateTime_fromString(zone.dateTimeStr))

offsetFromStringFallback(str, fast) ==
    IF fast.ok THEN fast ELSE flexibleOffsetParse(flexibleZone(str))

\* DateTimeOffset::fromString( iso8601String, result )
DateTimeOffset_fromString(str) == offsetFromStringFallback(str, tryParseFastPathOffset(str))

(***************************************************************************)
(* DateTimeOffset conversions and calendar arithmetic                      *)
(***************************************************************************)
\* DateTime::operator+( const TimeSpan& )
DateTime_plus(dateTime, span) == TAdd(dateTime, span)

\* DateTime::timeOfDay: m_ticks % TICKS_PER_DAY as a span
DateTime_timeOfDay(ticks) == MkTicks(0, TicksModDay(ticks)[1], TicksModDay(ticks)[2])

\* DateTimeOffset::utcTicks: local ticks minus offset ticks
utcTicks(v) == TSub(v.dateTime, v.offset)

\* DateTimeOffset::utcDateTime
utcDateTime(v) == utcTicks(v)

toOffset_local(v, newOffset) == DateTimeOffset(DateTime_plus(v.dateTime, newOffset), newOffset)

\* DateTimeOffset::toOffset( newOffset )
toOffset(v, newOffset) == DateTimeOffset(DateTime_plus(utcDateTime(v), newOffset), newOffset)

\* DateTimeOffset::toUniversalTime
toUniversalTime(v) == DateTimeOffset(utcDateTime(v), TZero)

\* constants::MICROSOFT_FILETIME_EPOCH_TICKS: 1601-01-01T00:00:00, which is
\* 584388 days after 0001-01-01
MICROSOFT_FILETIME_EPOCH_TICKS == [d |-> 584388, s |-> 0, f |-> 0]

toFILETIME_unguarded(v) == TSub(utcTicks(v), MICROSOFT_FILETIME_EPOCH_TICKS)

\* DateTimeOffset::toFILETIME
toFILETIME(v) ==
    IF TLt(utcTicks(v), MICROSOFT_FILETIME_EPOCH_TICKS) THEN TZero
    ELSE TSub(utcTicks(v), MICROSOFT_FILETIME_EPOCH_TICKS)

\* DateTimeOffset::fromFILETIME( FILETIME )
fromFILETIME(FILETIME) ==
    DateTimeOffset(TAdd(FILETIME, MICROSOFT_FILETIME_EPOCH_TICKS), TZero)

\* "while( month > 12 ) { month -= 12; year++; }": <<year, month>>
RECURSIVE monthCarryUp(_, _)
monthCarryUp(year, month) ==
    IF month > 12 THEN monthCarryUp(year + 1, month - 12) ELSE <<year, month>>

\* "while( month < 1 ) { month += 12; year--; }": <<year, month>>
RECURSIVE monthCarryDown(_, _)
monthCarryDown(year, month) ==
    IF month < 1 THEN monthCarryDown(year - 1, month + 12) ELSE <<year, month>>

adjustedDay_unclamped(day, daysInTargetMonth) == day

\* std::min( day, daysInTargetMonth )
adjustedDay(day, daysInTargetMonth) ==
    IF daysInTargetMonth < day THEN daysInTargetMonth ELSE day

addMonthsDate_unchecked(v, ym, day, timeOfDay) ==
    DateTimeOffset(
        DateTime_plus(dateToTicks(ym[1], ym[2], adjustedDay(day, daysInMonth(ym[1], ym[2]))),
                      timeOfDay),
        v.offset)

\* the end of addMonths, ym being the year and the month after the carries
addMonthsDate(v, ym, day, timeOfDay) ==
    DateTimeOffset(
        DateTime_plus(DateTime3(ym[1], ym[2], adjustedDay(day, daysInMonth(ym[1], ym[2]))),
                      timeOfDay),
        v.offset)

addMonthsFrom(v, dc, months) ==
    addMonthsDate(v, monthCarryDown(monthCarryUp(dc.year, dc.month + months)[1],
                                    monthCarryUp(dc.year, dc.month + months)[2]),
                  dc.day, DateTime_timeOfDay(v.dateTime))

\* DateTimeOffset::addMonths( months )
addMonths(v, months) == addMonthsFrom(v, dateComponentsFromTicks(v.dateTime), months)

\* DateTimeOffset::addYears( years )
addYears(v, years) == addMonths(v, years * 12)

(***************************************************************************)
(* Inputs of the calendar specification                                    *)
(***************************************************************************)
\* years are drawn from runs of YearSpan + 1 consecutive years, the runs
\* placed on the cycle boundaries of the codec (4, 100, 400 years, both ends
\* of the range)
YearSpan == 4

YearBases == {1, 97, 397, 1897, 1997, 2001, 2097, 9995}

Years == {y \in {b + k : b \in YearBases, k \in 0..YearSpan} : y <= MAX_YEAR}

YearInputs == Years \cup {MIN_YEAR - 1, MAX_YEAR + 1}

MidnightArgs(c, y, m, d) ==
    [ctor |-> c, year |-> y, month |-> m, day |-> d,
     hour |-> 0, minute |-> 0, second |-> 0, millisecond |-> 0]

DateGrid == {MidnightArgs(3, y, m, d) : y \in YearInputs, m \in 0..13, d \in 0..32}

FewDates == {<<1, 1, 1>>, <<2024, 2, 29>>, <<2023, 2, 29>>, <<2024, 13, 1>>, <<9999, 12, 31>>}

TimeGrid ==
    {[ctor |-> c, year |-> ymd[1], month |-> ymd[2], day |-> ymd[3],
      hour |-> h, minute |-> mi, second |-> s, millisecond |-> ms] :
        c \in {7}, ymd \in FewDates, h \in {-1, 0, 12, 23, 24}, mi \in {-1, 0, 59, 60},
        s \in {-1, 0, 59, 60}, ms \in {-1, 0, 1, 999, 1000}}
    \cup
    {[ctor |-> c, year |-> ymd[1], month |-> ymd[2], day |-> ymd[3],
      hour |-> h, minute |-> mi, second |-> s, millisecond |-> 0] :
        c \in {6}, ymd \in FewDates, h \in {-1, 0, 12, 23, 24}, mi \in {-1, 0, 59, 60},
        s \in {-1, 0, 59, 60}}

\* day numbers around the multiples of the cycle lengths of the codec
DaySpan == 2

DayInputs ==
    {n \in {c * k + j : c \in {DAYS_PER_YEAR, DAYS_PER_4_YEARS, DAYS_PER_100_YEARS,
                               DAYS_PER_400_YEARS},
                        k \in {0, 1, 3, 4, 5, 24, 25}, j \in (-DaySpan)..DaySpan}
        \cup {MAX_DATETIME_TICKS.d - j : j \in 0..DaySpan} :
       n >= 0 /\ n <= MAX_DATETIME_TICKS.d}

\* tick counts handed to DateTime( ticks ): the days of DayInputs at times
\* around the minute, hour, day and millisecond boundaries
CalTicks ==
    {[ctor |-> 1, ticks |-> [d |-> d, s |-> sc, f |-> f]] :
        d \in DayInputs, sc \in {0, 59, 60, 3599, 3600, 86399},
        f \in {0, 9999, 10000, 9999999}}

CalInputs == DateGrid \cup TimeGrid \cup CalTicks

NoComp ==
    [year |-> 0, month |-> 0, day |-> 0, hour |-> 0, minute |-> 0, second |-> 0,
     millisecond |-> 0]

NoDto == [dateTime |-> MIN_DATETIME_TICKS, offset |-> TZero]

(***************************************************************************)
(* The calendar specification: a DateTime is built from components by one  *)
(* of the three component constructors, or from a tick count, then its     *)
(* accessors are read.                                                     *)
(***************************************************************************)
InitCal ==
    /\ pc = "args"
    /\ args \in CalInputs
    /\ fmt = "none"
    /\ text = <<>>
    /\ dt = MIN_DATETIME_TICKS
    /\ dto = NoDto
    /\ ok = FALSE
    /\ comp = NoComp

Construct3 ==
    /\ pc = "args" /\ args.ctor = 3
    /\ dt' = DateTime3(args.year, args.month, args.day)
    /\ pc' = "constructed"
    /\ UNCHANGED <<args, fmt, text, dto, ok, comp>>

Construct6 ==
    /\ pc = "args" /\ args.ctor = 6
    /\ dt' = DateTime6(args.year, args.month, args.day, args.hour, args.minute, args.second)
    /\ pc' = "constructed"
    /\ UNCHANGED <<args, fmt, text, dto, ok, comp>>

Construct7 ==
    /\ pc = "args" /\ args.ctor = 7
    /\ dt' = DateTime7(args.year, args.month, args.day, args.hour, args.minute, args.second,
                       args.millisecond)
    /\ pc' = "constructed"
    /\ UNCHANGED <<args, fmt, text, dto, ok, comp>>

\* DateTime::DateTime( ticks )
ConstructTicks ==
    /\ pc = "args" /\ args.ctor = 1
    /\ dt' = args.ticks
    /\ pc' = "held"
    /\ UNCHANGED <<args, fmt, text, dto, ok, comp>>

\* DateTime::year, month, day, hour, minute, second, millisecond
Components ==
    /\ pc \in {"constructed", "held"}
    /\ comp' = LET dc == dateComponentsFromTicks(dt)
                   tc == timeComponentsFromTicks(dt)
               IN  [year |-> dc.year, month |-> dc.month, day |-> dc.day,
                    hour |-> tc.hour, minute |-> tc.minute, second |-> tc.second,
                    millisecond |-> tc.millisecond]
    /\ pc' = IF pc = "held" THEN "read" ELSE "components"
    /\ UNCHANGED <<args, fmt, text, dt, dto, ok>>

\* DateTime::isValid
IsValid ==
    /\ pc = "constructed"
    /\ ok' = DateTime_isValid(dt)
    /\ pc' = "validity"
    /\ UNCHANGED <<args, fmt, text, dt, dto, comp>>

NextCal == Construct3 \/ Construct6 \/ Construct7 \/ ConstructTicks \/ Components \/ IsValid

SpecCal == InitCal /\ [][NextCal]_vars

(***************************************************************************)
(* Inputs of the text specification                                        *)
(***************************************************************************)
\* the decimal digits of n >= 0 in exactly width characters
Dec(n, width) ==
    [i \in 1..width |->
        LET RECURSIVE pow10(_)
            pow10(k) == IF k = 0 THEN 1 ELSE 10 * pow10(k - 1)
        IN  DigitChars[((n \div pow10(width - i)) % 10) + 1]]

NoZone == [form |-> "none", sign |-> "+", hours |-> 0, minutes |-> 0]

Input(kind, layout, ymd, hms, frac, ticks) ==
    [kind |-> kind, layout |-> layout, year |-> ymd[1], month |-> ymd[2], day |-> ymd[3],
     hour |-> hms[1], minute |-> hms[2], second |-> hms[3], frac |-> frac, ticks |-> ticks,
     zone |-> NoZone, offset |-> TZero,
     padded |-> TRUE, time |-> TRUE, dot |-> FALSE, digits |-> <<>>, tail |-> <<>>]

\* the decimal digits of n in 0..99 without a leading zero
UDec(n) == IF n < 10 THEN Dec(n, 1) ELSE Dec(n, 2)

\* the zone suffix a text input ends with
ZoneText(z) ==
    CASE z.form = "none" -> <<>>
      [] z.form = "Z" -> <<"Z">>
      [] z.form = "colon" -> <<z.sign>> \o Dec(z.hours, 2) \o <<":">> \o Dec(z.minutes, 2)
      [] z.form = "compact" -> <<z.sign>> \o Dec(z.hours, 2) \o Dec(z.minutes, 2)
      [] z.form = "hours" -> <<z.sign>> \o Dec(z.hours, 2)
      [] z.form = "hour" -> <<z.sign>> \o Dec(z.hours, 1)

\* the text of the layout "free": the date, with the time if a.time, the
\* fields zero-padded if a.padded, then '.' and a.digits if a.dot, then a.tail
FreeText(a) ==
    (IF a.padded
     THEN Dec(a.year, 4) \o <<"-">> \o Dec(a.month, 2) \o <<"-">> \o Dec(a.day, 2)
     ELSE Dec(a.year, 4) \o <<"-">> \o UDec(a.month) \o <<"-">> \o UDec(a.day))
    \o (IF ~a.time THEN <<>>
        ELSE IF a.padded
        THEN <<"T">> \o Dec(a.hour, 2) \o <<":">> \o Dec(a.minute, 2) \o <<":">>
                 \o Dec(a.second, 2)
        ELSE <<"T">> \o UDec(a.hour) \o <<":">> \o UDec(a.minute) \o <<":">>
                 \o UDec(a.second))
    \o (IF a.dot THEN <<".">> \o a.digits ELSE <<>>)
    \o a.tail

\* the text a text input stands for
TextOf(a) ==
    LET date == Dec(a.year, 4) \o <<"-">> \o Dec(a.month, 2) \o <<"-">> \o Dec(a.day, 2)
        time == Dec(a.hour, 2) \o <<":">> \o Dec(a.minute, 2) \o <<":">> \o Dec(a.second, 2)
    IN  (CASE a.layout = "date" -> date
           [] a.layout = "datetime" -> date \o <<"T">> \o time
           [] a.layout = "fraction" -> date \o <<"T">> \o time \o <<".">> \o Dec(a.frac, 7)
           [] a.layout = "precise" ->
                 date \o <<"T">> \o time \o <<".">> \o Dec(a.frac, 7) \o <<"Z">>
           [] a.layout = "loose" ->
                 Dec(a.year, 4) \o <<"-">> \o UDec(a.month) \o <<"-">> \o UDec(a.day)
                     \o <<"T">> \o UDec(a.hour) \o <<":">> \o UDec(a.minute) \o <<":">>
                     \o UDec(a.second)
           [] a.layout = "free" -> FreeText(a))
        \o ZoneText(a.zone)

SecondInputs == {0, 37800, 86399}

FractionInputs == {0, 1, 1000000, 1230000, 1234567, 9999999}

TickInputs ==
    {Input("ticks", "none", <<0, 0, 0>>, <<0, 0, 0>>, 0, [d |-> d, s |-> s, f |-> f]) :
        d \in DayInputs, s \in SecondInputs, f \in FractionInputs}

DateTexts ==
    {Input("text", "date", <<y, m, d>>, <<0, 0, 0>>, 0, TZero) :
        y \in Years \cup {0}, m \in {0, 1, 2, 3, 12, 13}, d \in {0, 1, 28, 29, 30, 31, 32}}

PreciseTexts ==
    {Input("text", "precise", <<y, m, d>>, hms, f, TZero) :
        y \in {0, 1, 1900, 2000, 2024, 9999}, m \in {0, 1, 2, 12, 13},
        d \in {0, 1, 28, 29, 31, 32},
        hms \in {<<0, 0, 0>>, <<10, 30, 0>>, <<23, 59, 59>>, <<24, 0, 0>>, <<0, 60, 0>>,
                 <<0, 0, 60>>},
        f \in {0, 1, 1234567, 9999999}}

\* the fractions of the free texts are runs of up to MaxFractionDigits digits
MaxFractionDigits == 9

DigitSources ==
    {<<"1", "2", "3", "4", "5", "6", "7", "8", "9", "1", "2", "3">>,
     <<"0", "0", "0", "0", "0", "0", "1", "9", "9", "9", "9", "9">>,
     <<"9", "9", "9", "9", "9", "9", "9", "9", "9", "9", "9", "9">>,
     <<"1", "0", "0", "0", "0", "0", "0", "0", "0", "0", "0", "0">>}

DigitRuns == {SubSeq(src, 1, n) : src \in DigitSources, n \in 0..MaxFractionDigits}

Tails == {<<>>, <<"Z">>, <<"X">>, <<"Z", "Z">>, <<"+", "0", "2", ":", "0", "0">>}

\* date-times with or without a fraction, and dates, followed by a tail
FreeTexts ==
    {[Input("text", "free", ymd, hms, 0, TZero)
         EXCEPT !.padded = p, !.dot = TRUE, !.digits = ds, !.tail = tl] :
        ymd \in {<<2024, 6, 1>>, <<1999, 12, 31>>}, hms \in {<<0, 0, 0>>, <<23, 59, 59>>},
        p \in BOOLEAN, ds \in DigitRuns, tl \in Tails}
    \cup
    {[Input("text", "free", ymd, hms, 0, TZero)
         EXCEPT !.padded = p, !.time = tm, !.tail = tl] :
        ymd \in {<<2024, 6, 1>>, <<1999, 12, 31>>, <<2024, 12, 1>>},
        hms \in {<<0, 0, 0>>, <<23, 59, 59>>}, p \in BOOLEAN, tm \in BOOLEAN,
        tl \in Tails \cup {<<"a">>, <<"T">>, <<".">>}}

TextInputs == DateTexts \cup PreciseTexts \cup FreeTexts

(***************************************************************************)
(* The text specification: a DateTime held as ticks is formatted and the   *)
(* text parsed back, or a given text is parsed and the result formatted.   *)
(***************************************************************************)
InitText ==
    /\ args \in TickInputs \cup TextInputs
    /\ pc = IF args.kind = "ticks" THEN "value" ELSE "text"
    /\ dt = IF args.kind = "ticks" THEN args.ticks ELSE MIN_DATETIME_TICKS
    /\ text = IF args.kind = "ticks" THEN <<>> ELSE TextOf(args)
    /\ fmt = "none"
    /\ dto = NoDto
    /\ ok = FALSE
    /\ comp = NoComp

\* DateTime::toString( format )
CallToString ==
    /\ pc = "value" \/ (pc = "parsed" /\ ok /\ fmt = "none")
    /\ \E f \in Formats :
        /\ fmt' = f
        /\ text' = DateTime_toString(dt, f)
    /\ pc' = IF pc = "value" THEN "formatted" ELSE "reformatted"
    /\ UNCHANGED <<args, dt, dto, ok, comp>>

\* the caller's DateTime after fromString: "result = DateTime{ ticks }" stands
\* before each "return true" of the parsers and nowhere else
resultAfterParse(result, r) == IF r.ok THEN r.ticks ELSE result

\* DateTime::fromString( text, dt )
CallFromString ==
    /\ pc \in {"text", "formatted"}
    /\ ok' = DateTime_fromString(text).ok
    /\ dt' = resultAfterParse(dt, DateTime_fromString(text))
    /\ pc' = "parsed"
    /\ UNCHANGED <<args, fmt, text, dto, comp>>

\* suffixes that begin with a sign
OffsetSuffixes ==
    {<<"+", "0", "2", ":", "0", "0">>,
     <<"-", "0", "5", ":", "0", "0">>,
     <<"+", "9", "9", ":", "9", "9">>,
     <<"-">>,
     <<"+", "0", "2", ":", "0", "0", "Z">>,
     <<"+", "1", "-", "2">>}

\* DateTime::fromString( text followed by a suffix, dt ), on a text of more
\* than 10 characters that was accepted (a given text, or the text of
\* Iso8601PreciseTrimmed); comp keeps the ticks of the text
CallFromStringWithOffset ==
    /\ pc = "parsed" /\ ok /\ Len(text) > 10
    /\ fmt \in {"none", "Iso8601PreciseTrimmed"}
    /\ \E suffix \in OffsetSuffixes :
        /\ text' = text \o suffix
        /\ ok' = DateTime_fromString(text \o suffix).ok
        /\ dt' = resultAfterParse(dt, DateTime_fromString(text \o suffix))
        /\ comp' = [ticks |-> dt, suffix |-> suffix]
    /\ pc' = "suffixed"
    /\ UNCHANGED <<args, fmt, dto>>

NextText == CallToString \/ CallFromString \/ CallFromStringWithOffset

SpecText == InitText /\ [][NextText]_vars

(***************************************************************************)
(* Inputs of the offset specification                                      *)
(***************************************************************************)
\* local tick values of DateTimeOffset values: in range, and one tick
\* outside the range at either end
LocalInputs ==
    {[d |-> d, s |-> sc, f |-> f] :
        d \in {0, 739036, MAX_DATETIME_TICKS.d}, sc \in {0, 37800, 86399},
        f \in {0, 1, 1000000, 1230000, 9999999}}
    \cup {MkTicks(0, 0, -1), TAdd(MAX_DATETIME_TICKS, MkTicks(0, 0, 1))}

\* offsets of DateTimeOffset values: whole minutes, and one tick around the
\* 14 hour and the 24 hour marks
OffsetInputs ==
    {TimeSpan_fromMinutes(m) :
        m \in {-1440, -900, -841, -840, -839, -330, -60, -1, 0, 1, 60, 330, 839, 840, 841,
               900, 1440}}
    \cup {TAdd(TimeSpan_fromMinutes(m), MkTicks(0, 0, e)) :
            m \in {-1440, -840, 840, 1440}, e \in {-1, 1}}

OffsetValues ==
    {[Input("value", "none", <<0, 0, 0>>, <<0, 0, 0>>, 0, t) EXCEPT !.offset = o] :
        t \in LocalInputs, o \in OffsetInputs}

\* the hours of the zone suffixes run from 0 to MaxZoneHours, then 23, 24, 99
MaxZoneHours == 16

ZoneInputs ==
    {[form |-> "colon", sign |-> sg, hours |-> h, minutes |-> m] :
        sg \in {"+", "-"}, h \in 0..MaxZoneHours \cup {23, 24, 99},
        m \in {0, 1, 30, 59, 60, 99}}

OffsetTexts ==
    {[Input("text", layout, ymd, hms, 1234567, TZero) EXCEPT !.zone = z] :
        layout \in {"date", "datetime", "fraction", "loose"},
        ymd \in {<<2024, 6, 1>>, <<1999, 12, 31>>},
        hms \in {<<0, 0, 0>>, <<23, 59, 59>>},
        z \in ZoneInputs}

\* texts with a zone suffix in range whose date and time fields are in and
\* out of range
OffsetFieldTexts ==
    {[Input("text", layout, ymd, hms, 1234567, TZero) EXCEPT !.zone = z] :
        layout \in {"datetime", "fraction", "loose"},
        ymd \in {<<2024, 6, 15>>, <<0, 6, 15>>, <<0, 2, 29>>, <<0, 2, 30>>, <<2024, 0, 15>>,
                 <<2024, 13, 15>>, <<2024, 6, 0>>, <<2024, 6, 31>>, <<2024, 2, 29>>,
                 <<2023, 2, 29>>, <<9999, 12, 31>>, <<1, 1, 1>>},
        hms \in {<<10, 30, 45>>, <<24, 0, 0>>, <<0, 60, 0>>, <<0, 0, 60>>, <<23, 59, 59>>},
        z \in {[form |-> "Z", sign |-> "+", hours |-> 0, minutes |-> 0],
               [form |-> "colon", sign |-> "+", hours |-> 2, minutes |-> 0],
               [form |-> "colon", sign |-> "-", hours |-> 14, minutes |-> 0]}}

\* the spellings of a zone suffix: +HH:MM, +HHMM, +HH and +H, in and out of
\* range
SpelledZones ==
    {[form |-> fm, sign |-> sg, hours |-> h, minutes |-> 0] :
        fm \in {"colon", "compact", "hours", "hour"}, sg \in {"+", "-"}, h \in {0, 5, 9}}
    \cup {[form |-> fm, sign |-> sg, hours |-> h, minutes |-> 0] :
            fm \in {"colon", "compact", "hours"}, sg \in {"+", "-"}, h \in {10, 14, 15}}
    \cup {[form |-> fm, sign |-> sg, hours |-> h, minutes |-> m] :
            fm \in {"colon", "compact"}, sg \in {"+", "-"}, h \in {5, 14}, m \in {30, 60}}

\* well-formed dates and date-times followed by a spelled zone or by none
ZoneFormTexts ==
    {[Input("text", layout, ymd, hms, 1234567, TZero) EXCEPT !.zone = z] :
        layout \in {"date", "datetime", "fraction", "loose"},
        ymd \in {<<2024, 6, 1>>, <<1999, 12, 31>>},
        hms \in {<<0, 0, 0>>, <<23, 59, 59>>},
        z \in SpelledZones \cup {NoZone}}

\* the free texts that end with their last field or their fraction
PlainTexts == {a \in FreeTexts : a.tail = <<>>}

\* tails in which a sign follows a sign
SignTails ==
    {<<"+", "-", "0", "5", ":", "0", "0">>, <<"-", "+", "0", "5", ":", "0", "0">>,
     <<"+", "+", "0", "5", ":", "0", "0">>, <<"-", "-", "0", "5", ":", "0", "0">>,
     <<"+", "-", "5">>, <<"-", "-", "0", "5", "0", "0">>,
     <<"+", "-", "0", "5", ":", "0", "0", "Z">>,
     <<"-", "-", "0", "5", ":", "0", "0", "Z">>,
     <<"+", "+", "0", "5", ":", "0", "0", "+", "0", "2", ":", "0", "0">>,
     <<"-", "+", "0", "5", ":", "0", "0", "-", "0", "2", ":", "0", "0">>,
     <<"+", "-", "Z">>, <<"+", "-">>}

SignTexts ==
    {[Input("text", "free", ymd, hms, 0, TZero)
         EXCEPT !.padded = p, !.time = tm, !.tail = tl] :
        ymd \in {<<2024, 6, 1>>, <<1999, 12, 31>>}, hms \in {<<0, 0, 0>>, <<23, 59, 59>>},
        p \in BOOLEAN, tm \in BOOLEAN, tl \in SignTails}

(***************************************************************************)
(* The offset specification: a DateTimeOffset value is formatted or asked  *)
(* for its validity and the text parsed back, or a given text is parsed    *)
(* and the result formatted.                                               *)
(***************************************************************************)
InitOffset ==
    /\ args \in OffsetValues \cup OffsetTexts \cup OffsetFieldTexts \cup ZoneFormTexts
                  \cup PlainTexts \cup SignTexts
    /\ pc = IF args.kind = "value" THEN "value" ELSE "text"
    /\ dto = IF args.kind = "value" THEN DateTimeOffset(args.ticks, args.offset) ELSE NoDto
    /\ text = IF args.kind = "value" THEN <<>> ELSE TextOf(args)
    /\ fmt = "none"
    /\ dt = MIN_DATETIME_TICKS
    /\ ok = FALSE
    /\ comp = NoComp

\* DateTimeOffset::toString( format ); the model formats values whose local
\* time is in range only (see Chr)
OffsetToString ==
    /\ pc = "value" \/ (pc = "parsed" /\ ok /\ fmt = "none")
    /\ DateTime_isValid(dto.dateTime)
    /\ \E f \in Formats :
        /\ fmt' = f
        /\ text' = DateTimeOffset_toString(dto, f)
    /\ pc' = IF pc = "value" THEN "formatted" ELSE "reformatted"
    /\ UNCHANGED <<args, dt, dto, ok, comp>>

offsetResultAfterParse_overwritten(result, r) == r.value

\* the caller's DateTimeOffset after fromString: "result = DateTimeOffset{
\* dateTime, offset }" stands before each "return true" and nowhere else
offsetResultAfterParse(result, r) == IF r.ok THEN r.value ELSE result

\* DateTimeOffset::fromString( text, dto )
OffsetFromString ==
    /\ pc \in {"text", "formatted"}
    /\ ok' = DateTimeOffset_fromString(text).ok
    /\ dto' = offsetResultAfterParse(dto, DateTimeOffset_fromString(text))
    /\ pc' = "parsed"
    /\ UNCHANGED <<args, fmt, text, dt, comp>>

\* DateTimeOffset::isValid
OffsetIsValid ==
    /\ pc = "value"
    /\ ok' = DateTimeOffset_isValid(dto)
    /\ pc' = "validity"
    /\ UNCHANGED <<args, fmt, text, dt, dto, comp>>

\* DateTimeOffset::localDateTime, then DateTime::toString( format ) on it
LocalToString ==
    /\ pc = "value"
    /\ DateTime_isValid(dto.dateTime)
    /\ \E f \in Formats :
        /\ fmt' = f
        /\ text' = DateTime_toString(localDateTime(dto), f)
    /\ pc' = "localFormatted"
    /\ UNCHANGED <<args, dt, dto, ok, comp>>

NextOffset == OffsetToString \/ OffsetFromString \/ OffsetIsValid \/ LocalToString

SpecOffset == InitOffset /\ [][NextOffset]_vars

(***************************************************************************)
(* The differential specification: on one text the fast-path parser is run *)
(* alone, then the flexible parser that fromString falls back to is run    *)
(* alone, for DateTime or for DateTimeOffset.                              *)
(***************************************************************************)
DiffTexts == TextInputs \cup OffsetTexts

InitDiff ==
    /\ args \in DiffTexts
    /\ pc = "text"
    /\ text = TextOf(args)
    /\ fmt = "none"
    /\ dt = MIN_DATETIME_TICKS
    /\ dto = NoDto
    /\ ok = FALSE
    /\ comp = NoComp

\* tryParseFastPath( text, result ), called by DateTime::fromString on texts
\* of 10 characters and more
FastPathAlone ==
    /\ pc = "text" /\ Len(text) >= 10
    /\ comp' = [type |-> "DateTime", fast |-> tryParseFastPath(text), flexible |-> ParseFail]
    /\ pc' = "fast"
    /\ UNCHANGED <<args, fmt, text, dt, dto, ok>>

\* the rest of DateTime::fromString on the same text
FlexibleAlone ==
    /\ pc = "fast" /\ comp.type = "DateTime"
    /\ comp' = [comp EXCEPT !.flexible = flexibleParse(stripZone(text))]
    /\ pc' = "both"
    /\ UNCHANGED <<args, fmt, text, dt, dto, ok>>

\* tryParseFastPathOffset( text, result )
FastPathOffsetAlone ==
    /\ pc = "text"
    /\ comp' = [type |-> "DateTimeOffset", fast |-> tryParseFastPathOffset(text),
                flexible |-> OffsetParseFail]
    /\ pc' = "fast"
    /\ UNCHANGED <<args, fmt, text, dt, dto, ok>>

\* the rest of DateTimeOffset::fromString on the same text
FlexibleOffsetAlone ==
    /\ pc = "fast" /\ comp.type = "DateTimeOffset"
    /\ comp' = [comp EXCEPT !.flexible = flexibleOffsetParse(flexibleZone(text))]
    /\ pc' = "both"
    /\ UNCHANGED <<args, fmt, text, dt, dto, ok>>

NextDiff == FastPathAlone \/ FlexibleAlone \/ FastPathOffsetAlone \/ FlexibleOffsetAlone

SpecDiff == InitDiff /\ [][NextDiff]_vars

(***************************************************************************)
(* Inputs of the arithmetic specification                                  *)
(***************************************************************************)
\* the local dates and times of the values
ArithDates ==
    {<<1, 1, 1>>, <<1600, 12, 31>>, <<1601, 1, 1>>, <<1900, 1, 31>>, <<2000, 3, 31>>,
     <<2023, 12, 31>>, <<2024, 1, 31>>, <<2024, 2, 29>>, <<2024, 11, 30>>, <<9999, 12, 31>>}

ArithTimes == {MkTicks(0, 0, 0), MkTicks(0, 37800, 1230000), MkTicks(0, 86399, 9999999)}

ArithOffsets == {TimeSpan_fromMinutes(m) : m \in {-840, -330, 0, 60, 840}}

ArithValues ==
    {[Input("value", "none", ymd, <<0, 0, 0>>, 0, TAdd(dateToTicks(ymd[1], ymd[2], ymd[3]), t))
         EXCEPT !.offset = o] :
        ymd \in ArithDates, t \in ArithTimes, o \in ArithOffsets}

\* months are added from -MaxMonths to MaxMonths, and by a few larger counts
MaxMonths == 14

MonthInputs == (-MaxMonths)..MaxMonths \cup {-120, -25, -24, 24, 25, 120}

YearCounts == {-10, -4, -1, 0, 1, 4, 10}

(***************************************************************************)
(* The arithmetic specification: a DateTimeOffset value gets months or     *)
(* years added, or is converted to another offset or to UTC up to twice,   *)
(* or is converted to a FILETIME and back.  dto is the current value,      *)
(* comp the last operation, its argument and the value it was applied to.  *)
(***************************************************************************)
InitArith ==
    /\ args \in ArithValues
    /\ pc = "value"
    /\ dto = DateTimeOffset(args.ticks, args.offset)
    /\ text = <<>>
    /\ fmt = "none"
    /\ dt = MIN_DATETIME_TICKS
    /\ ok = FALSE
    /\ comp = NoComp

AddMonths ==
    /\ pc = "value"
    /\ \E n \in MonthInputs :
        /\ dto' = addMonths(dto, n)
        /\ comp' = [op |-> "addMonths", arg |-> n, from |-> dto]
    /\ pc' = "added"
    /\ UNCHANGED <<args, fmt, text, dt, ok>>

AddYears ==
    /\ pc = "value"
    /\ \E n \in YearCounts :
        /\ dto' = addYears(dto, n)
        /\ comp' = [op |-> "addYears", arg |-> n, from |-> dto]
    /\ pc' = "added"
    /\ UNCHANGED <<args, fmt, text, dt, ok>>

ToOffset ==
    /\ pc \in {"value", "converted"}
    /\ \E o \in ArithOffsets :
        /\ dto' = toOffset(dto, o)
        /\ comp' = [op |-> "toOffset", arg |-> o, from |-> dto]
    /\ pc' = IF pc = "value" THEN "converted" ELSE "convertedTwice"
    /\ UNCHANGED <<args, fmt, text, dt, ok>>

ToUniversalTime ==
    /\ pc \in {"value", "converted"}
    /\ dto' = toUniversalTime(dto)
    /\ comp' = [op |-> "toUniversalTime", arg |-> TZero, from |-> dto]
    /\ pc' = IF pc = "value" THEN "converted" ELSE "convertedTwice"
    /\ UNCHANGED <<args, fmt, text, dt, ok>>

\* the FILETIME is kept in dt
ToFILETIME ==
    /\ pc = "value"
    /\ dt' = toFILETIME(dto)
    /\ comp' = [op |-> "toFILETIME", arg |-> TZero, from |-> dto]
    /\ pc' = "filetime"
    /\ UNCHANGED <<args, fmt, text, dto, ok>>

FromFILETIME ==
    /\ pc = "filetime"
    /\ dto' = fromFILETIME(dt)
    /\ comp' = [op |-> "fromFILETIME", arg |-> dt, from |-> dto]
    /\ pc' = "restored"
    /\ UNCHANGED <<args, fmt, text, dt, ok>>

NextArith ==
    AddMonths \/ AddYears \/ ToOffset \/ ToUniversalTime \/ ToFILETIME \/ FromFILETIME

SpecArith == InitArith /\ [][NextArith]_vars

(***************************************************************************)
(* Claims on the calendar specification                                    *)
(***************************************************************************)
\* the calendar fields of section 3 of the specification
CalendarDate(y, m, d) ==
    /\ y \in 1..9999
    /\ m \in 1..12
    /\ d \in 1..daysInMonth(y, m)

ClockTime(h, mi, s, ms) ==
    /\ h \in 0..23
    /\ mi \in 0..59
    /\ s \in 0..59
    /\ ms \in 0..999

\* the arguments the constructor chosen by args.ctor accepts
Accepted(a) ==
    /\ CalendarDate(a.year, a.month, a.day)
    /\ a.ctor = 6 => ClockTime(a.hour, a.minute, a.second, 0)
    /\ a.ctor = 7 => ClockTime(a.hour, a.minute, a.second, a.millisecond)

\* C1: for every valid calendar date (y,m,d), y in [1,9999], the date
\* components read back from dateToTicks(y,m,d) are exactly (y,m,d).
C1_DateRoundTrip ==
    (pc = "components" /\ args.ctor = 3 /\ CalendarDate(args.year, args.month, args.day))
        => /\ dt = dateToTicks(args.year, args.month, args.day)
           /\ comp.year = args.year
           /\ comp.month = args.month
           /\ comp.day = args.day

\* the last day of a 400-year cycle has been converted and read back
C1_Witness ==
    /\ pc = "components" /\ args.ctor = 3
    /\ args.year = 2000 /\ args.month = 12 /\ args.day = 31
    /\ comp.year = 2000 /\ comp.day = 31

\* C4: a component constructor stores MIN_DATETIME_TICKS when a date or time
\* field is out of range and dateToTicks + timeToTicks otherwise.
C4_ConstructorSentinel ==
    pc = "constructed"
        => dt = IF Accepted(args)
                THEN TAdd(dateToTicks(args.year, args.month, args.day),
                          IF args.ctor = 3 THEN TZero
                          ELSE timeToTicks(args.hour, args.minute, args.second,
                                           args.millisecond))
                ELSE MIN_DATETIME_TICKS

\* hour 24 on an otherwise valid date and time was rejected to the sentinel
C4_Witness ==
    /\ pc = "constructed" /\ args.ctor = 7
    /\ args.year = 2024 /\ args.month = 2 /\ args.day = 29
    /\ args.hour = 24 /\ args.minute = 59 /\ args.second = 59 /\ args.millisecond = 999
    /\ dt = MIN_DATETIME_TICKS

\* C5: a DateTime built by a component constructor from an invalid field
\* combination is reported invalid by DateTime::isValid().
C5_InvalidDetected ==
    (pc = "validity" /\ ~Accepted(args)) => ok = FALSE

(***************************************************************************)
(* Claims on the text specification                                        *)
(***************************************************************************)
\* C2: for every tick value t in [MIN_DATETIME_TICKS, MAX_DATETIME_TICKS],
\* parsing toString(Format::Iso8601Precise) of t succeeds and yields t.
C2_PreciseRoundTrip ==
    (pc = "parsed" /\ args.kind = "ticks" /\ fmt = "Iso8601Precise"
        /\ DateTime_isValid(args.ticks))
        => ok /\ dt = args.ticks

\* the largest tick value was formatted and parsed back
C2_Witness ==
    /\ pc = "parsed" /\ args.kind = "ticks" /\ fmt = "Iso8601Precise"
    /\ args.ticks = MAX_DATETIME_TICKS
    /\ Len(text) = 28
    /\ ok /\ dt = MAX_DATETIME_TICKS

\* the fields of a text input are calendar and clock fields
FieldsInRange(a) ==
    /\ CalendarDate(a.year, a.month, a.day)
    /\ ClockTime(a.hour, a.minute, a.second, 0)

\* C3: a text YYYY-MM-DDTHH:mm:ss.fffffffZ with fields in range parses to a
\* value whose ticks % TICKS_PER_SECOND is the 7-digit fraction, and
\* toString(Format::Iso8601Precise) of that value is the text again.
C3_CanonicalPrecise ==
    /\ (pc = "parsed" /\ args.layout = "precise" /\ FieldsInRange(args))
        => ok /\ TicksModSecond(dt) = args.frac
    /\ (pc = "reformatted" /\ args.layout = "precise" /\ FieldsInRange(args)
            /\ fmt = "Iso8601Precise")
        => text = TextOf(args)

\* "2024-01-28T10:30:00.1234567Z" was parsed and formatted back
C3_Witness ==
    /\ pc = "reformatted" /\ args.layout = "precise" /\ fmt = "Iso8601Precise"
    /\ args.year = 2024 /\ args.month = 1 /\ args.day = 28
    /\ args.hour = 10 /\ args.minute = 30 /\ args.second = 0 /\ args.frac = 1234567
    /\ TicksModSecond(dt) = 1234567
    /\ text = <<"2", "0", "2", "4", "-", "0", "1", "-", "2", "8", "T", "1", "0", ":", "3",
                "0", ":", "0", "0", ".", "1", "2", "3", "4", "5", "6", "7", "Z">>

\* the leap-year rule as the claim words it
LeapRule(y) == y % 4 = 0 /\ (y % 100 # 0 \/ y % 400 = 0)

\* C6: isValidDate(y,2,29) is true exactly for the years y in [1,9999] that
\* are divisible by 4 and not by 100, or divisible by 400, and
\* DateTime::fromString accepts "YYYY-02-29" for exactly those years.
C6_LeapDay ==
    (pc = "parsed" /\ args.layout = "date" /\ args.month = 2 /\ args.day = 29
        /\ args.year \in 1..9999)
        => /\ isValidDate(args.year, 2, 29) <=> LeapRule(args.year)
           /\ ok <=> LeapRule(args.year)

\* "1900-02-29" was rejected
C6_Witness ==
    /\ pc = "parsed" /\ ~ok
    /\ text = <<"1", "9", "0", "0", "-", "0", "2", "-", "2", "9">>

(***************************************************************************)
(* Claims on the offset specification                                      *)
(***************************************************************************)
\* the local time a text input denotes
ExpectedLocal(a) ==
    IF a.layout = "date" THEN dateToTicks(a.year, a.month, a.day)
    ELSE TAdd(TAdd(dateToTicks(a.year, a.month, a.day),
                   timeToTicks(a.hour, a.minute, a.second, 0)),
              MkTicks(0, 0, IF a.layout = "fraction" THEN a.frac ELSE 0))

\* the offset a zone suffix denotes, in minutes
ZoneMinutes(z) ==
    IF z.sign = "-" THEN -(z.hours * 60 + z.minutes) ELSE z.hours * 60 + z.minutes

\* the +-14:00 ceiling on the hours and minutes of a zone suffix
ZoneInRange(z) ==
    z.hours \in 0..14 /\ z.minutes \in 0..59 /\ (z.hours = 14 => z.minutes = 0)

ColonZoneText == args.kind = "text" /\ args.zone.form = "colon"

\* C7: a well-formed date-time followed by +HH:MM or -HH:MM is accepted by
\* DateTimeOffset::fromString iff HH is in 0..14, MM in 0..59 and HH = 14
\* implies MM = 0, on the fast path (layouts "datetime", "fraction") and on
\* the flexible path (layouts "date", "loose"); an accepted text yields the
\* offset it names, and every successful parse yields an offset of at most
\* 840 minutes in magnitude.
C7_OffsetCeiling ==
    /\ (pc = "parsed" /\ ColonZoneText /\ FieldsInRange(args)) =>
           /\ ok <=> ZoneInRange(args.zone)
           /\ ok => dto.offset = TimeSpan_fromMinutes(ZoneMinutes(args.zone))
    /\ (pc = "parsed" /\ ok) =>
           /\ TLe(TimeSpan_fromMinutes(-840), dto.offset)
           /\ TLe(dto.offset, TimeSpan_fromMinutes(840))

\* "2024-06-01T00:00:00+14:00" was accepted with an offset of 840 minutes
C7_Witness ==
    /\ pc = "parsed" /\ ok
    /\ text = <<"2", "0", "2", "4", "-", "0", "6", "-", "0", "1", "T", "0", "0", ":", "0",
                "0", ":", "0", "0", "+", "1", "4", ":", "0", "0">>
    /\ dto.offset = TimeSpan_fromMinutes(840)

\* the selectors whose DateTimeOffset text ends with the offset as +HH:MM
ColonFormats == Formats \ {"Iso8601Basic", "Iso8601Date"}

ZeroZoneText == ColonZoneText /\ args.zone.hours = 0 /\ args.zone.minutes = 0

Suffix(str, n) == SubSeq(str, Len(str) - n + 1, Len(str))

\* C8 as stated: "...-00:00" and "...+00:00" both parse, to the same instant,
\* and each parsed value is formatted with the sign it was written with.
C8_SignReproduced ==
    ZeroZoneText =>
        /\ pc = "parsed" => (ok /\ dto = DateTimeOffset(ExpectedLocal(args), TZero))
        /\ (pc = "reformatted" /\ fmt \in ColonFormats) =>
               Suffix(text, 6) = ZoneText(args.zone)

\* C8: "...-00:00" and "...+00:00" both parse, to the same value (the local
\* time of the text with a zero offset), and the parsed value is formatted
\* with the suffix "+00:00" whichever sign was written.
C8_ZeroOffsetPositive ==
    ZeroZoneText =>
        /\ pc = "parsed" => (ok /\ dto = DateTimeOffset(ExpectedLocal(args), TZero))
        /\ (pc = "reformatted" /\ fmt \in ColonFormats) =>
               Suffix(text, 6) = <<"+", "0", "0", ":", "0", "0">>

\* the value parsed from "2024-06-01T00:00:00-00:00" was formatted as
\* "2024-06-01T00:00:00+00:00"
C8_Witness ==
    /\ pc = "reformatted" /\ fmt = "Iso8601"
    /\ ZeroZoneText /\ args.zone.sign = "-" /\ args.layout = "datetime"
    /\ text = <<"2", "0", "2", "4", "-", "0", "6", "-", "0", "1", "T", "0", "0", ":", "0",
                "0", ":", "0", "0", "+", "0", "0", ":", "0", "0">>

\* a text has just been produced by DateTimeOffset::toString from a value
\* whose offset is a whole number of minutes
FormattedWholeMinutes ==
    /\ pc \in {"formatted", "reformatted"}
    /\ dto.offset.f = 0 /\ dto.offset.s % SECONDS_PER_MINUTE = 0

\* the whole-minute offset of the value, in minutes
OffsetMinutes == (dto.offset.d * SECONDS_PER_DAY + dto.offset.s) \div SECONDS_PER_MINUTE

\* the DateTime text of the selector without its zone designator ("Z", or
\* "+00:00" under Iso8601Extended; the date and the time dialect have none)
DialectBody(ticks, format) ==
    LET str == DateTime_toString(ticks, format)
    IN  CASE format \in {"Iso8601Date", "Iso8601Time"} -> str
          [] format = "Iso8601Extended" -> SubSeq(str, 1, Len(str) - 6)
          [] OTHER -> SubSeq(str, 1, Len(str) - 1)

\* sign, two hour digits, sep, two minute digits
SignedText(minutes, sep) ==
    <<IF minutes < 0 THEN "-" ELSE "+">>
        \o Dec((IF minutes < 0 THEN -minutes ELSE minutes) \div 60, 2) \o sep
        \o Dec((IF minutes < 0 THEN -minutes ELSE minutes) % 60, 2)

NoZ(str) == \A i \in 1..Len(str) : str[i] # "Z"

C10_ValidWithin14Hours ==
    pc = "validity" =>
        (ok <=> /\ TLe(MIN_DATETIME_TICKS, dto.dateTime)
                /\ TLe(dto.dateTime, MAX_DATETIME_TICKS)
                /\ TLe(TimeSpan_fromMinutes(-840), dto.offset)
                /\ TLe(dto.offset, TimeSpan_fromMinutes(840)))

(***************************************************************************)
(* Claims on the differential specification                                *)
(***************************************************************************)
\* C11: a text that the fast-path parser accepts and the flexible parser
\* accepts, each run alone, gets the same result from both: the same tick
\* value for DateTime, the same tick value and offset for DateTimeOffset.
C11_ParsersAgree ==
    (pc = "both" /\ comp.fast.ok /\ comp.flexible.ok) => comp.fast = comp.flexible

\* both DateTimeOffset parsers accepted "1999-12-31T23:59:59.123456789+02:00"
\* and kept the first 7 digits of the fraction
C11_Witness ==
    /\ pc = "both" /\ comp.type = "DateTimeOffset"
    /\ comp.fast.ok /\ comp.flexible.ok
    /\ args.layout = "free" /\ Len(args.digits) = 9 /\ args.hour = 23
    /\ TicksModSecond(comp.flexible.value.dateTime) = 1234567
    /\ comp.fast.value.offset = TimeSpan_fromMinutes(120)

(***************************************************************************)
(* Claims on the texts DateTime::fromString accepts                        *)
(***************************************************************************)
\* a free text with a time and a fraction of at least n digits, ending
\* there or with 'Z'
FractionText(n) ==
    /\ pc = "parsed" /\ args.kind = "text" /\ args.layout = "free"
    /\ args.time /\ args.dot /\ Len(args.digits) >= n
    /\ args.tail \in {<<>>, <<"Z">>}

\* C12: a text that the fast path declines and whose fraction has 8 or more
\* digits is rejected by DateTime::fromString.
C12_ExcessDigitsRejected ==
    (FractionText(8) /\ ~tryParseFastPath(text).ok) => ~ok

RECURSIVE Pow10(_)
Pow10(k) == IF k = 0 THEN 1 ELSE 10 * Pow10(k - 1)

\* the first 7 digits of a digit run, right-padded with zeros, as a number
RECURSIVE FirstSevenFrom(_, _)
FirstSevenFrom(ds, i) ==
    IF i > 7 THEN 0
    ELSE (IF i <= Len(ds) THEN DigitVal(ds[i]) ELSE 0) * Pow10(7 - i)
             + FirstSevenFrom(ds, i + 1)

\* C13: on the fast path (zero-padded fields) a fraction of 1 digit or more,
\* with or without a trailing 'Z', is accepted; the sub-second ticks of the
\* value are the first 7 digits right-padded with zeros, digits beyond the
\* 7th being dropped without rounding, and the rest of the value is the date
\* and time of the text.
C13_FastPathFraction ==
    (FractionText(1) /\ args.padded) =>
        /\ ok
        /\ TicksModSecond(dt) = FirstSevenFrom(args.digits, 1)
        /\ dt = TAdd(ExpectedLocal(args), MkTicks(0, 0, FirstSevenFrom(args.digits, 1)))

\* "2024-06-01T00:00:00.999999999Z" was parsed to a fraction of 9999999 ticks
C13_Witness ==
    /\ FractionText(9) /\ args.padded /\ args.tail = <<"Z">>
    /\ args.digits = <<"9", "9", "9", "9", "9", "9", "9", "9", "9">>
    /\ args.year = 2024 /\ args.hour = 0
    /\ ok /\ TicksModSecond(dt) = 9999999 /\ dt.s = 0

\* C14: a text in the fixed layout YYYY-MM-DD or YYYY-MM-DDTHH:mm:ss.fffffffZ
\* with a field out of range is rejected by DateTime::fromString (the
\* fallback parser, which runs after the fast path declines, rejects it too).
C14_RangeIsFailure ==
    (pc = "parsed" /\ args.kind = "text" /\ args.layout \in {"date", "precise"}
        /\ ~FieldsInRange(args))
        => ~ok

\* "2024-13-01T23:59:59.0000001Z" was rejected
C14_Witness ==
    /\ pc = "parsed" /\ ~ok /\ args.layout = "precise"
    /\ args.year = 2024 /\ args.month = 13 /\ args.day = 1
    /\ args.hour = 23 /\ args.minute = 59 /\ args.second = 59 /\ args.frac = 1
    /\ ~tryParseFastPath(text).ok /\ ~flexibleParse(stripZone(text)).ok

\* C15: DateTimeOffset::fromString succeeds only on texts whose date and time
\* fields are in range, and the value then holds the fields of the text.
C15_NoClampedValue ==
    (pc = "parsed" /\ args.kind = "text" /\ args.layout \in {"datetime", "fraction", "loose"}
        /\ ok)
        => /\ FieldsInRange(args)
           /\ dto.dateTime = ExpectedLocal(args)

\* C16: a text with a character left over after the last field, or a
\* non-digit where a digit of a field is expected, is rejected by
\* DateTime::fromString.
C16_WholeInputConsumed ==
    (pc = "parsed" /\ args.kind = "text" /\ args.layout = "free"
        /\ args.tail \in {<<"X">>, <<"a">>})
        => ~ok

(***************************************************************************)
(* Claims on the trimmed fraction                                          *)
(***************************************************************************)
\* a digit run without its trailing zeros, one digit at least being kept
RECURSIVE TrimmedDigits(_)
TrimmedDigits(ds) ==
    IF Len(ds) > 1 /\ ds[Len(ds)] = "0" THEN TrimmedDigits(SubSeq(ds, 1, Len(ds) - 1))
    ELSE ds

\* the text between the seconds and the zone designator, the designator
\* being n characters long
FractionOf(str, n) == SubSeq(str, 20, Len(str) - n)

\* C17: under Iso8601PreciseTrimmed the seconds are followed by '.' and the
\* 7-digit zero-padded sub-second tick count with its trailing zeros removed
\* and one digit at least kept, in the text of DateTimeOffset::toString
\* (before the offset) and in the text of DateTime::toString (before 'Z').
C17_TrimmedFraction ==
    /\ (pc = "formatted" /\ fmt = "Iso8601PreciseTrimmed") =>
           FractionOf(text, 6) = <<".">> \o TrimmedDigits(Dec(dto.dateTime.f, 7))
    /\ (pc = "localFormatted" /\ fmt = "Iso8601PreciseTrimmed") =>
           /\ FractionOf(text, 1) = <<".">> \o TrimmedDigits(Dec(dto.dateTime.f, 7))
           /\ Suffix(text, 1) = <<"Z">>

\* a DateTimeOffset value with the fraction 1230000 was formatted with the
\* fraction ".123"
C17_Witness ==
    /\ pc = "formatted" /\ fmt = "Iso8601PreciseTrimmed"
    /\ dto.dateTime.f = 1230000 /\ dto.offset = TimeSpan_fromMinutes(-330)
    /\ Len(text) = 29
    /\ SubSeq(text, 18, 29) = <<"0", "0", ".", "1", "2", "3", "-", "0", "5", ":", "3", "0">>

(***************************************************************************)
(* Claims on the arithmetic specification                                  *)
(***************************************************************************)
\* the months added by the last operation
MonthsAdded == IF comp.op = "addYears" THEN 12 * comp.arg ELSE comp.arg

\* the months from year 0 to the month the sum falls in
TargetMonths == args.year * 12 + (args.month - 1) + MonthsAdded

TargetYear == TargetMonths \div 12

TargetMonth == (TargetMonths % 12) + 1

TargetDay ==
    IF args.day < daysInMonth(TargetYear, TargetMonth) THEN args.day
    ELSE daysInMonth(TargetYear, TargetMonth)

\* C18: addMonths(n) on a valid value whose target year is in 1..9999 gives
\* the year and month advanced by n months with the carry into the year,
\* the day min(d, daysInMonth(target year, target month)), and the
\* time of day and the offset of the value; addYears(n) is addMonths(12 n).
C18_AddMonths ==
    (pc = "added" /\ TargetYear \in 1..9999) =>
        /\ dto.offset = args.offset
        /\ dto.dateTime = TAdd(dateToTicks(TargetYear, TargetMonth, TargetDay),
                               [d |-> 0, s |-> args.ticks.s, f |-> args.ticks.f])

\* 2024-01-31T10:30:00.1230000-05:30 plus 13 months is
\* 2025-02-28T10:30:00.1230000-05:30
C18_Witness ==
    /\ pc = "added" /\ comp.op = "addMonths" /\ comp.arg = 13
    /\ args.year = 2024 /\ args.month = 1 /\ args.day = 31
    /\ dto.dateTime = TAdd(dateToTicks(2025, 2, 28), MkTicks(0, 37800, 1230000))
    /\ dto.offset = TimeSpan_fromMinutes(-330)

\* the UTC tick count of the value the conversions started from
StartUtc == TSub(args.ticks, args.offset)

\* C19: after toOffset(o), once or after another conversion, the value has
\* the offset o and the UTC ticks of the value the conversions started
\* from; after toUniversalTime it has the offset zero and those UTC ticks as
\* local ticks.  So toUniversalTime leaves a value it produced unchanged and
\* toOffset(o1).toOffset(o2) is toOffset(o2).
C19_InstantPreserved ==
    (pc \in {"converted", "convertedTwice"}) =>
        /\ comp.op = "toOffset" =>
               /\ dto.offset = comp.arg
               /\ TSub(dto.dateTime, dto.offset) = StartUtc
               /\ dto.dateTime = TAdd(StartUtc, comp.arg)
        /\ comp.op = "toUniversalTime" =>
               /\ dto.offset = TZero
               /\ dto.dateTime = StartUtc
        /\ (comp.op = "toUniversalTime" /\ comp.from.offset = TZero
                /\ comp.from.dateTime = StartUtc) => dto = comp.from

\* 0001-01-01T00:00:00+01:00 was converted to -14:00 and then to +14:00: the
\* local time is 13 hours after the UTC instant, which is before tick 0
C19_Witness ==
    /\ pc = "convertedTwice" /\ comp.op = "toOffset"
    /\ args.ticks = TZero /\ args.offset = TimeSpan_fromMinutes(60)
    /\ comp.from.offset = TimeSpan_fromMinutes(-840)
    /\ dto.offset = TimeSpan_fromMinutes(840)
    /\ dto.dateTime = MkTicks(0, 13 * SECONDS_PER_HOUR, 0)

\* 1601-01-01T00:00:00 as a tick count
FiletimeEpoch == dateToTicks(1601, 1, 1)

\* C20: toFILETIME is 0 when the UTC ticks are before 1601-01-01 and the UTC
\* ticks minus the ticks of 1601-01-01 otherwise, never negative; for a
\* value at or after 1601-01-01, fromFILETIME of it has the offset zero and
\* the UTC ticks of the value.
C20_FiletimeRoundTrip ==
    /\ pc = "filetime" =>
           /\ dt = IF TLt(StartUtc, FiletimeEpoch) THEN TZero
                   ELSE TSub(StartUtc, FiletimeEpoch)
           /\ TLe(TZero, dt)
    /\ (pc = "restored" /\ TLe(FiletimeEpoch, StartUtc)) =>
           /\ dto.offset = TZero
           /\ TSub(dto.dateTime, dto.offset) = StartUtc

\* 1601-01-01T00:00:00+01:00 is one hour before the epoch: its FILETIME is 0
C20_Witness ==
    /\ pc = "filetime" /\ dt = TZero
    /\ args.ticks = FiletimeEpoch /\ args.offset = TimeSpan_fromMinutes(60)

(***************************************************************************)
(* Claims on round trips, frames and zone designators                      *)
(***************************************************************************)
\* the value the library was handed is in range and its offset is a whole
\* number of minutes within 14 hours
WholeMinuteOffsetValue ==
    /\ args.kind = "value"
    /\ DateTimeOffset_isValid(DateTimeOffset(args.ticks, args.offset))
    /\ \E m \in -840..840 : args.offset = TimeSpan_fromMinutes(m)

\* C21: for a valid DateTimeOffset whose offset is a whole number of minutes
\* in -840..840, fromString of toString(Iso8601Precise) succeeds and gives
\* the same local ticks and the same offset.
C21_OffsetRoundTrip ==
    (pc = "parsed" /\ fmt = "Iso8601Precise" /\ WholeMinuteOffsetValue) =>
        /\ ok
        /\ dto.dateTime = args.ticks
        /\ dto.offset = args.offset

\* 9999-12-31T23:59:59.9999999-05:30 was formatted and parsed back
C21_Witness ==
    /\ pc = "parsed" /\ fmt = "Iso8601Precise" /\ ok
    /\ args.kind = "value"
    /\ args.ticks = MAX_DATETIME_TICKS /\ args.offset = TimeSpan_fromMinutes(-330)
    /\ dto = DateTimeOffset(MAX_DATETIME_TICKS, TimeSpan_fromMinutes(-330))
    /\ Suffix(text, 6) = <<"-", "0", "5", ":", "3", "0">>

\* the caller's object before the call of fromString: the value that was
\* formatted, or a default-constructed object when a text was given
ResultBefore == IF args.kind = "ticks" THEN args.ticks ELSE MIN_DATETIME_TICKS

OffsetResultBefore ==
    IF args.kind = "value" THEN DateTimeOffset(args.ticks, args.offset) ELSE NoDto

HasDoubleSign(str) ==
    \E i \in 10..(Len(str) - 1) : At(str, i) \in {"+", "-"} /\ At(str, i - 1) \in {"+", "-"}

\* C23 as stated: DateTimeOffset::fromString rejects every text in which a
\* sign after the date prefix immediately follows another sign.
C23_DoubleSignRejected ==
    (pc = "parsed" /\ args.kind = "text" /\ HasDoubleSign(text)) => ~ok

\* a well-formed date or date-time followed by a zone in one of the four
\* spellings, within the +-14:00 ceiling
SpelledZoneText ==
    /\ args.kind = "text"
    /\ args.layout \in {"date", "datetime", "fraction", "loose"}
    /\ FieldsInRange(args)
    /\ args.zone.form \in {"colon", "compact", "hours", "hour"}
    /\ ZoneInRange(args.zone)

\* C24: a well-formed date-time followed by +HH:MM, +HHMM, +HH or +H (or
\* the same with '-') within the ceiling parses to the local time of the
\* text and the offset the suffix names, the minutes being 0 when absent:
\* the result does not depend on the spelling.
C24_ZoneSpellings ==
    (pc = "parsed" /\ SpelledZoneText) =>
        /\ ok
        /\ dto = DateTimeOffset(ExpectedLocal(args),
                                TimeSpan_fromMinutes(ZoneMinutes(args.zone)))

\* "2024-6-1T23:59:59-5" was parsed to 2024-06-01T23:59:59-05:00
C24_Witness ==
    /\ pc = "parsed" /\ ok
    /\ text = <<"2", "0", "2", "4", "-", "6", "-", "1", "T", "2", "3", ":", "5", "9", ":",
                "5", "9", "-", "5">>
    /\ dto = DateTimeOffset(TAdd(dateToTicks(2024, 6, 1), timeToTicks(23, 59, 59, 0)),
                            TimeSpan_fromMinutes(-300))

\* a text without a zone designator
ZonelessText ==
    /\ args.kind = "text"
    /\ args.zone.form = "none"
    /\ args.layout = "free" => args.tail = <<>>

\* C25: on a text without 'Z', '+' or '-' after the date, DateTimeOffset::
\* fromString succeeds when DateTime::fromString does, with the offset zero
\* and the local ticks DateTime::fromString gives; a well-formed date or
\* date-time is accepted with the local time its fields name.
C25_NoDesignator ==
    (pc = "parsed" /\ ZonelessText) =>
        /\ ok = DateTime_fromString(text).ok
        /\ ok => dto = DateTimeOffset(DateTime_fromString(text).ticks, TZero)
        /\ (args.layout \in {"date", "datetime", "fraction", "loose"} /\ FieldsInRange(args))
               => (ok /\ dto.dateTime = ExpectedLocal(args))

\* "1999-12-31T23:59:59.1234567" was parsed to that local time, offset zero
C25_Witness ==
    /\ pc = "parsed" /\ ok
    /\ args.layout = "fraction" /\ args.zone.form = "none"
    /\ Len(text) = 27 /\ args.year = 1999 /\ args.hour = 23
    /\ dto = DateTimeOffset(TAdd(TAdd(dateToTicks(1999, 12, 31), timeToTicks(23, 59, 59, 0)),
                                 MkTicks(0, 0, 1234567)),
                            TZero)

\* C26 as stated: DateTime::fromString refuses a date-time whose '.' after
\* the seconds is followed by no digit, at the end of the text or before 'Z'.
C26_DotNeedsDigit ==
    (pc = "parsed" /\ args.kind = "text" /\ args.layout = "free" /\ args.time
        /\ args.dot /\ args.digits = <<>> /\ args.tail \in {<<>>, <<"Z">>})
        => ~ok

(***************************************************************************)
(* Claims on the day count and the components                              *)
(***************************************************************************)
\* the reference calendar: the leap years before year y, the days of a
\* common year before month m, and the days from 0001-01-01 to (y, m, d)
LeapYearsBefore(y) == ((y - 1) \div 4) - ((y - 1) \div 100) + ((y - 1) \div 400)

CommonDaysBefore == <<0, 31, 59, 90, 120, 151, 181, 212, 243, 273, 304, 334>>

ReferenceDays(y, m, d) ==
    365 * (y - 1) + LeapYearsBefore(y) + CommonDaysBefore[m]
        + (IF m > 2 /\ LeapRule(y) THEN 1 ELSE 0) + (d - 1)

\* the calendar day after (y, m, d)
NextDay(y, m, d) ==
    IF m < 12 /\ d < ReferenceDays(y, m + 1, 1) - ReferenceDays(y, m, 1) THEN <<y, m, d + 1>>
    ELSE IF m = 12 /\ d < 31 THEN <<y, m, d + 1>>
    ELSE IF m < 12 THEN <<y, m + 1, 1>>
    ELSE <<y + 1, 1, 1>>

\* C27: for a valid date in years 1..9999 the tick count of dateToTicks is a
\* whole number of days, the number of days the reference calendar counts
\* from 0001-01-01: 0 for 0001-01-01, and one more for the next calendar day.
C27_DayCount ==
    (pc = "constructed" /\ args.ctor = 3 /\ CalendarDate(args.year, args.month, args.day)) =>
        /\ dt = [d |-> ReferenceDays(args.year, args.month, args.day), s |-> 0, f |-> 0]
        /\ (args.year = 1 /\ args.month = 1 /\ args.day = 1) => dt = TZero
        /\ args.year < MAX_YEAR =>
               LET n == NextDay(args.year, args.month, args.day)
               IN  dateToTicks(n[1], n[2], n[3]) = TAdd(dt, MkTicks(1, 0, 0))

\* 2100-02-28 was converted: 2100 is no leap year and the next day is March 1
C27_Witness ==
    /\ pc = "constructed" /\ args.ctor = 3
    /\ args.year = 2100 /\ args.month = 2 /\ args.day = 28
    /\ dateToTicks(2100, 3, 1) = TAdd(dt, MkTicks(1, 0, 0))
    /\ NextDay(2100, 2, 28) = <<2100, 3, 1>>

\* the day number of the tick count handed to DateTime( ticks )
HeldDay == args.ticks.d

\* C28: the components of a tick count in [MIN_DATETIME_TICKS,
\* MAX_DATETIME_TICKS] are in range (year 1..9999, month 1..12, day
\* 1..daysInMonth(year, month), hour 0..23, minute and second 0..59,
\* millisecond 0..999), and the last day of a 400-year cycle and of a 4-year
\* cycle is December 31 of the leap year the cycle ends with.
C28_ComponentsInRange ==
    pc = "read" =>
        /\ comp.year \in 1..9999
        /\ comp.month \in 1..12
        /\ comp.day \in 1..daysInMonth(comp.year, comp.month)
        /\ comp.hour \in 0..23
        /\ comp.minute \in 0..59
        /\ comp.second \in 0..59
        /\ comp.millisecond \in 0..999
        /\ (HeldDay + 1) % DAYS_PER_400_YEARS = 0 =>
               /\ comp.year = 400 * ((HeldDay + 1) \div DAYS_PER_400_YEARS)
               /\ comp.month = 12 /\ comp.day = 31
        /\ ((HeldDay + 1) % DAYS_PER_4_YEARS = 0 /\ HeldDay < DAYS_PER_100_YEARS) =>
               /\ comp.year = 4 * ((HeldDay + 1) \div DAYS_PER_4_YEARS)
               /\ comp.month = 12 /\ comp.day = 31

\* the last tick of day 146096, the last day of the first 400-year cycle, was
\* read as 0400-12-31T23:59:59.999
C28_Witness ==
    /\ pc = "read"
    /\ args.ticks = [d |-> DAYS_PER_400_YEARS - 1, s |-> 86399, f |-> 9999999]
    /\ comp = [year |-> 400, month |-> 12, day |-> 31, hour |-> 23, minute |-> 59,
               second |-> 59, millisecond |-> 999]

(***************************************************************************)
(* Claims on discarded offsets and on arithmetic out of range              *)
(***************************************************************************)
\* C29: when DateTime::fromString parses a text of more than 10 characters
\* to ticks t, it parses the text followed by a suffix that begins with '+'
\* or '-' (an offset in or out of range, a sign alone) to the same ticks t.
C29_OffsetDiscarded ==
    pc = "suffixed" => (ok /\ dt = comp.ticks)

\* "2024-6-1T23:59:59.1234567" followed by "+99:99" was parsed to the ticks
\* of the text without the suffix
C29_Witness ==
    /\ pc = "suffixed" /\ ok
    /\ comp.suffix = <<"+", "9", "9", ":", "9", "9">>
    /\ args.kind = "text" /\ args.layout = "free" /\ ~args.padded
    /\ args.digits = <<"1", "2", "3", "4", "5", "6", "7">> /\ args.tail = <<>>
    /\ dt = TAdd(TAdd(dateToTicks(2024, 6, 1), timeToTicks(23, 59, 59, 0)),
                 MkTicks(0, 0, 1234567))
    /\ dt = comp.ticks

\* C30: addMonths and addYears on a valid value give a value in range; when
\* the target year is outside 1..9999 the result is MIN_DATETIME_TICKS plus
\* the time of day of the value, with the offset of the value.
C30_OutOfRangeCollapses ==
    pc = "added" =>
        /\ DateTime_isValid(dto.dateTime)
        /\ TargetYear \notin 1..9999 =>
               /\ dto.dateTime = TAdd(MIN_DATETIME_TICKS,
                                      [d |-> 0, s |-> args.ticks.s, f |-> args.ticks.f])
               /\ dto.offset = args.offset

\* 9999-12-31T10:30:00.1230000+14:00 plus 1 month is 0001-01-01T10:30:00.1230000+14:00
C30_Witness ==
    /\ pc = "added" /\ comp.op = "addMonths" /\ comp.arg = 1
    /\ args.year = 9999 /\ args.month = 12 /\ args.day = 31
    /\ TargetYear = 10000
    /\ dto = DateTimeOffset(MkTicks(0, 37800, 1230000), TimeSpan_fromMinutes(840))

====
